---- MODULE Spec2Model ----
(***************************************************************************)
(* BN254 optimal-ate pairing engine (src/src/bn256/engine.rs) and the      *)
(* residue-witness construction of src/src/tests/field.rs.                 *)
(*                                                                         *)
(* The field tower and the curve groups are not part of the engine; they   *)
(* are modelled from their contract at a size TLC can enumerate:           *)
(*   - Fq is the prime field of FqModulus elements, Fq2 = Fq[u]/(u^2+1);   *)
(*   - G2 is the curve y^2 = x^3 + TwistB over Fq2 (373 points, a group of *)
(*     prime order), with the Frobenius-twist constants of that curve;     *)
(*   - Fq12 is the prime field of Fq12Modulus elements. Its multiplicative *)
(*     group is cyclic of order Fq12Order = 540, a divisor of p^12 - 1     *)
(*     that holds the whole 3-part 27, so it is the quotient of Fq12^* by  *)
(*     its 540-th powers; exponents are the program's constants reduced.   *)
(* The engine's own code (line-coefficient formulas, loops, iterator       *)
(* handling, assertions) is translated statement by statement.             *)
(***************************************************************************)
EXTENDS Integers, Sequences, FiniteSets, TLC

(***************************************************************************)
(* Sequencing of statements, loops of 64 passes, Option / CtOption         *)
(***************************************************************************)
\* `let x = v; F(x)`: v is computed first, then F of its value
Then(v, F(_)) == CHOOSE res \in {F(x) : x \in {v}} : TRUE

\* `for i in (hi - 63 ..= hi).rev() { st = Body(st, i) }`: the 64 passes of a
\* loop over SIX_U_PLUS_2_NAF or over the bits of a u64, composed pairwise
Rev2(st, hi, Body(_, _)) == Then(Body(st, hi), LAMBDA s : Body(s, hi - 1))
Rev4(st, hi, Body(_, _)) == Then(Rev2(st, hi, Body), LAMBDA s : Rev2(s, hi - 2, Body))
Rev8(st, hi, Body(_, _)) == Then(Rev4(st, hi, Body), LAMBDA s : Rev4(s, hi - 4, Body))
Rev16(st, hi, Body(_, _)) == Then(Rev8(st, hi, Body), LAMBDA s : Rev8(s, hi - 8, Body))
Rev32(st, hi, Body(_, _)) == Then(Rev16(st, hi, Body), LAMBDA s : Rev16(s, hi - 16, Body))
ForRev64(st, hi, Body(_, _)) == Then(Rev32(st, hi, Body), LAMBDA s : Rev32(s, hi - 32, Body))

None == [is_some |-> FALSE]
Some(v) == [is_some |-> TRUE, value |-> v]

(***************************************************************************)
(* Fq and Fq2                                                              *)
(***************************************************************************)
FqModulus == 19
Fq == 0..(FqModulus - 1)

FqInv(a) == CHOOSE b \in Fq : (a * b) % FqModulus = 1

Fq2Of(a, b) == [c0 |-> a % FqModulus, c1 |-> b % FqModulus]
Fq2Zero == Fq2Of(0, 0)
Fq2One == Fq2Of(1, 0)
Fq2Set == {Fq2Of(a, b) : a \in Fq, b \in Fq}

Fq2Add(a, b) == Fq2Of(a.c0 + b.c0, a.c1 + b.c1)
Fq2Sub(a, b) == Fq2Of(a.c0 - b.c0, a.c1 - b.c1)
Fq2Neg(a) == Fq2Of(0 - a.c0, 0 - a.c1)
Fq2Double(a) == Fq2Add(a, a)
Fq2Mul(a, b) == Fq2Of(a.c0 * b.c0 - a.c1 * b.c1, a.c0 * b.c1 + a.c1 * b.c0)
Fq2Square(a) == Fq2Mul(a, a)
\* multiplication of both components by an Fq scalar
Fq2Scale(a, s) == Fq2Of(a.c0 * s, a.c1 * s)

Fq2Invert(a) ==
    LET norm == (a.c0 * a.c0 + a.c1 * a.c1) % FqModulus
    IN  IF norm = 0 THEN None
        ELSE LET ni == FqInv(norm)
             IN  Some(Fq2Of(a.c0 * ni, (0 - a.c1) * ni))

(***************************************************************************)
(* Constants of the engine                                                 *)
(***************************************************************************)
\* mutant: the list with the digit at index 10 cleared
SIX_U_PLUS_2_NAF_digit_cleared ==
    << 0, 0, 0, 1, 0, 1, 0, -1, 0, 0, 0, -1, 0, 0, 1, 0, 0, 1, 1, 0, -1, 0, 0, 1, 0, -1, 0, 0, 0, 0,
       1, 1, 1, 0, 0, -1, 0, 0, 1, 0, 0, 0, 0, 0, -1, 0, 0, 1, 1, 0, 0, -1, 0, 0, 0, 1, 1, 0, -1, 0,
       0, 1, 0, 1, 1 >>

\* pub const SIX_U_PLUS_2_NAF: [i8; 65]
SIX_U_PLUS_2_NAF ==
    << 0, 0, 0, 1, 0, 1, 0, -1, 0, 0, 1, -1, 0, 0, 1, 0, 0, 1, 1, 0, -1, 0, 0, 1, 0, -1, 0, 0, 0, 0,
       1, 1, 1, 0, 0, -1, 0, 0, 1, 0, 0, 0, 0, 0, -1, 0, 0, 1, 1, 0, 0, -1, 0, 0, 0, 1, 1, 0, -1, 0,
       0, 1, 0, 1, 1 >>

\* SIX_U_PLUS_2_NAF[i] with the source's zero-based index
NafDigit(i) == SIX_U_PLUS_2_NAF[i + 1]
NafLen == Len(SIX_U_PLUS_2_NAF)

\* the twist y^2 = x^3 + TwistB, and xi^((q-1)/3), xi^((q^2-1)/3), xi^((q-1)/2)
\* for xi = 1 + u
TwistB == Fq2Of(10, 9)
FROBENIUS_COEFF_FQ6_C1_1 == Fq2Of(0, 11)
FROBENIUS_COEFF_FQ6_C1_2 == Fq2Of(7, 0)
XI_TO_Q_MINUS_1_OVER_2 == Fq2Of(16, 16)

(***************************************************************************)
(* G2: affine points (x, y), identity (0, 0); Jacobian points (x, y, z)    *)
(***************************************************************************)
G2Affine(x, y) == [x |-> x, y |-> y]
G2AffineIdentity == G2Affine(Fq2Zero, Fq2Zero)
G2AffineIsIdentity(q) == q.x = Fq2Zero /\ q.y = Fq2Zero
G2AffineNeg(q) == G2Affine(q.x, Fq2Neg(q.y))

G2OnCurve(q) ==
    Fq2Square(q.y) = Fq2Add(Fq2Mul(Fq2Square(q.x), q.x), TwistB)

G2Jac(x, y, z) == [x |-> x, y |-> y, z |-> z]
G2Identity == G2Jac(Fq2Zero, Fq2One, Fq2Zero)
G2IsIdentity(r) == r.z = Fq2Zero

\* From<G2Affine> for G2
G2FromAffine(q) ==
    IF G2AffineIsIdentity(q) THEN G2Identity ELSE G2Jac(q.x, q.y, Fq2One)

\* From<G2> for G2Affine
G2ToAffine(r) ==
    IF G2IsIdentity(r) THEN G2AffineIdentity
    ELSE LET zi == Fq2Invert(r.z).value
             zi2 == Fq2Square(zi)
         IN  G2Affine(Fq2Mul(r.x, zi2), Fq2Mul(r.y, Fq2Mul(zi2, zi)))

\* PartialEq for G2: equality of the points, not of the coordinates
G2Eq(a, b) ==
    IF G2IsIdentity(a) \/ G2IsIdentity(b) THEN G2IsIdentity(a) /\ G2IsIdentity(b)
    ELSE LET za == Fq2Square(a.z)
             zb == Fq2Square(b.z)
         IN  /\ Fq2Mul(a.x, zb) = Fq2Mul(b.x, za)
             /\ Fq2Mul(a.y, Fq2Mul(zb, b.z)) = Fq2Mul(b.y, Fq2Mul(za, a.z))

\* G2::double in Jacobian coordinates (curve coefficient a = 0)
G2Double(r) ==
    IF G2IsIdentity(r) THEN G2Identity
    ELSE LET a == Fq2Square(r.x)
             b == Fq2Square(r.y)
             c == Fq2Square(b)
             d == Fq2Double(Fq2Sub(Fq2Sub(Fq2Square(Fq2Add(r.x, b)), a), c))
             e == Fq2Add(Fq2Double(a), a)
             f == Fq2Square(e)
             x3 == Fq2Sub(f, Fq2Double(d))
             y3 == Fq2Sub(Fq2Mul(e, Fq2Sub(d, x3)), Fq2Double(Fq2Double(Fq2Double(c))))
             z3 == Fq2Double(Fq2Mul(r.y, r.z))
         IN  G2Jac(x3, y3, z3)

\* Add<G2Affine> for G2 (mixed addition)
G2AddAffine(r, q) ==
    IF G2AffineIsIdentity(q) THEN r
    ELSE IF G2IsIdentity(r) THEN G2FromAffine(q)
    ELSE LET z1z1 == Fq2Square(r.z)
             u2 == Fq2Mul(q.x, z1z1)
             s2 == Fq2Mul(Fq2Mul(q.y, r.z), z1z1)
             h == Fq2Sub(u2, r.x)
             rr == Fq2Double(Fq2Sub(s2, r.y))
         IN  IF h = Fq2Zero
             THEN IF rr = Fq2Zero THEN G2Double(r) ELSE G2Identity
             ELSE LET hh == Fq2Square(h)
                      i == Fq2Double(Fq2Double(hh))
                      j == Fq2Mul(h, i)
                      v == Fq2Mul(r.x, i)
                      x3 == Fq2Sub(Fq2Sub(Fq2Square(rr), j), Fq2Double(v))
                      y3 == Fq2Sub(Fq2Mul(rr, Fq2Sub(v, x3)),
                                   Fq2Double(Fq2Mul(r.y, j)))
                      z3 == Fq2Sub(Fq2Sub(Fq2Square(Fq2Add(r.z, h)), z1z1), hh)
                  IN  G2Jac(x3, y3, z3)

\* the two Frobenius-twisted operands of the trailing additions
FrobeniusQ1(q) ==
    G2Affine(Fq2Mul(Fq2Of(q.x.c0, 0 - q.x.c1), FROBENIUS_COEFF_FQ6_C1_1),
             Fq2Mul(Fq2Of(q.y.c0, 0 - q.y.c1), XI_TO_Q_MINUS_1_OVER_2))
FrobeniusMinusQ2(q) ==
    G2Affine(Fq2Mul(q.x, FROBENIUS_COEFF_FQ6_C1_2), q.y)

(***************************************************************************)
(* G2Prepared::from_affine: Jacobian line coefficients                     *)
(***************************************************************************)
\* doubling_step: the updated r and the coefficient triple
G2Prepared_doubling_step(r) ==
    LET tmp0 == Fq2Square(r.x)
        tmp1 == Fq2Square(r.y)
        tmp2 == Fq2Square(tmp1)
        tmp3 == Fq2Double(Fq2Sub(Fq2Sub(Fq2Square(Fq2Add(tmp1, r.x)), tmp0), tmp2))
        tmp4 == Fq2Add(Fq2Double(tmp0), tmp0)
        tmp6 == Fq2Add(r.x, tmp4)
        tmp5 == Fq2Square(tmp4)
        zsquared == Fq2Square(r.z)
        rx == Fq2Sub(Fq2Sub(tmp5, tmp3), tmp3)
        rz == Fq2Sub(Fq2Sub(Fq2Square(Fq2Add(r.z, r.y)), tmp1), zsquared)
        ry == Fq2Sub(Fq2Mul(Fq2Sub(tmp3, rx), tmp4),
                     Fq2Double(Fq2Double(Fq2Double(tmp2))))
        n3 == Fq2Neg(Fq2Double(Fq2Mul(tmp4, zsquared)))
        n6 == Fq2Sub(Fq2Sub(Fq2Sub(Fq2Square(tmp6), tmp0), tmp5),
                     Fq2Double(Fq2Double(tmp1)))
        n0 == Fq2Double(Fq2Mul(rz, zsquared))
    IN  [r |-> G2Jac(rx, ry, rz), coeff |-> <<n0, n3, n6>>]

\* addition_step: the updated r and the coefficient triple
G2Prepared_addition_step(r, q) ==
    LET zsquared == Fq2Square(r.z)
        ysquared == Fq2Square(q.y)
        t0 == Fq2Mul(zsquared, q.x)
        t1 == Fq2Mul(Fq2Sub(Fq2Sub(Fq2Square(Fq2Add(q.y, r.z)), ysquared), zsquared),
                     zsquared)
        t2 == Fq2Sub(t0, r.x)
        t3 == Fq2Square(t2)
        t4 == Fq2Double(Fq2Double(t3))
        t5 == Fq2Mul(t4, t2)
        t6 == Fq2Sub(Fq2Sub(t1, r.y), r.y)
        t9 == Fq2Mul(t6, q.x)
        t7 == Fq2Mul(t4, r.x)
        rx == Fq2Sub(Fq2Sub(Fq2Sub(Fq2Square(t6), t5), t7), t7)
        rz == Fq2Sub(Fq2Sub(Fq2Square(Fq2Add(r.z, t2)), zsquared), t3)
        t10 == Fq2Add(q.y, rz)
        t8 == Fq2Mul(Fq2Sub(t7, rx), t6)
        t0b == Fq2Double(Fq2Mul(r.y, t5))
        ry == Fq2Sub(t8, t0b)
        t10b == Fq2Sub(Fq2Sub(Fq2Square(t10), ysquared), Fq2Square(rz))
        t9b == Fq2Sub(Fq2Double(t9), t10b)
        t10c == Fq2Double(rz)
        t1b == Fq2Double(Fq2Neg(t6))
    IN  [r |-> G2Jac(rx, ry, rz), coeff |-> <<t10c, t1b, t9b>>]

\* One pass of `for i in (1..SIX_U_PLUS_2_NAF.len()).rev()` and the passes
\* after it. st = [r, steps]; every push is recorded as [kind, coeff].
Push(st, kind, res) ==
    [r |-> res.r, steps |-> Append(st.steps, [kind |-> kind, coeff |-> res.coeff])]

\* mutant: a pass whose match has no arm for the digit -1
G2Prepared_pass_without_minus_one(st, q, i) ==
    Then(Push(st, "doubling", G2Prepared_doubling_step(st.r)),
         LAMBDA d :
            IF NafDigit(i - 1) = 1
            THEN Push(d, "addition", G2Prepared_addition_step(d.r, q))
            ELSE d)

\* the body of one pass of `for i in (1..SIX_U_PLUS_2_NAF.len()).rev()`
G2Prepared_pass(st, q, i) ==
    Then(Push(st, "doubling", G2Prepared_doubling_step(st.r)),
         LAMBDA d :
            LET x == NafDigit(i - 1)
            IN  IF x = 1
                THEN Push(d, "addition", G2Prepared_addition_step(d.r, q))
                ELSE IF x = -1
                THEN Push(d, "addition", G2Prepared_addition_step(d.r, G2AffineNeg(q)))
                ELSE d)

\* the pushes of from_affine for a non-identity q, in order
G2Prepared_steps(q) ==
    Then(ForRev64([r |-> G2FromAffine(q), steps |-> <<>>], NafLen - 1,
                  LAMBDA st, i : G2Prepared_pass(st, q, i)),
         LAMBDA looped :
    Then(Push(looped, "frobenius", G2Prepared_addition_step(looped.r, FrobeniusQ1(q))),
         LAMBDA l1 :
            Push(l1, "frobenius", G2Prepared_addition_step(l1.r, FrobeniusMinusQ2(q))).steps))

G2Prepared_from_affine(q) ==
    IF G2AffineIsIdentity(q)
    THEN [coeffs |-> <<>>, infinity |-> TRUE]
    ELSE Then(G2Prepared_steps(q),
              LAMBDA steps :
                [coeffs |-> [j \in 1..Len(steps) |-> steps[j].coeff], infinity |-> FALSE])

(***************************************************************************)
(* G2OnProvePrepared::from_affine: affine (slope, bias) coefficients        *)
(***************************************************************************)
Fq2Two == Fq2Double(Fq2One)
Fq2Three == Fq2Add(Fq2Two, Fq2One)

\* mutant: a slope without the factor three, alpha = x^2 / 2 * y
OnProve_doubling_step_without_three(r) ==
    LET t == G2ToAffine(r)
        inv == Fq2Invert(Fq2Mul(t.y, Fq2Two))
    IN  IF ~inv.is_some THEN None
        ELSE LET alpha == Fq2Mul(Fq2Square(t.x), inv.value)
                 bias == Fq2Sub(t.y, Fq2Mul(alpha, t.x))
             IN  Some(<<alpha, bias>>)

\* doubling_step: Some(<<alpha, bias>>), None when invert().unwrap() panics
OnProve_doubling_step(r) ==
    LET t == G2ToAffine(r)
        inv == Fq2Invert(Fq2Mul(t.y, Fq2Two))
    IN  IF ~inv.is_some THEN None
        ELSE LET alpha == Fq2Mul(Fq2Mul(Fq2Square(t.x), Fq2Three), inv.value)
                 bias == Fq2Sub(t.y, Fq2Mul(alpha, t.x))
             IN  IF Fq2Zero # Fq2Sub(Fq2Sub(t.y, Fq2Mul(alpha, t.x)), bias) THEN None
                 ELSE Some(<<alpha, bias>>)

\* the two assertions of double_verify on the affine point t
DoubleVerifyHolds(coeff, t) ==
    /\ Fq2Zero = Fq2Sub(Fq2Sub(t.y, Fq2Mul(coeff[1], t.x)), coeff[2])
    /\ Fq2Zero = Fq2Sub(Fq2Mul(Fq2Mul(t.y, Fq2Two), coeff[1]),
                        Fq2Mul(Fq2Square(t.x), Fq2Three))

\* the affine point double_verify computes: x3 = alpha^2 - 2x, y3 = -alpha*x3 - bias
DoubleVerifyNext(coeff, t) ==
    LET x3 == Fq2Sub(Fq2Square(coeff[1]), Fq2Mul(t.x, Fq2Two))
        y3 == Fq2Sub(Fq2Neg(Fq2Mul(coeff[1], x3)), coeff[2])
    IN  G2Affine(x3, y3)

\* double_verify of from_affine: Some(t3), None when an assertion fails
OnProve_double_verify(coeff, r) ==
    LET t == G2ToAffine(r)
    IN  IF DoubleVerifyHolds(coeff, t)
        THEN Some(G2FromAffine(DoubleVerifyNext(coeff, t)))
        ELSE None

\* addition_step: Some(<<alpha, bias>>), None when invert().unwrap() panics
OnProve_addition_step(r, q) ==
    LET t == G2ToAffine(r)
        inv == Fq2Invert(Fq2Sub(q.x, t.x))
    IN  IF ~inv.is_some THEN None
        ELSE LET alpha == Fq2Mul(Fq2Sub(q.y, t.y), inv.value)
                 bias == Fq2Sub(t.y, Fq2Mul(alpha, t.x))
             IN  Some(<<alpha, bias>>)

\* the two assertions of addition_verify on the affine points t and p
AdditionVerifyHolds(coeff, t, p) ==
    /\ Fq2Zero = Fq2Sub(Fq2Sub(t.y, Fq2Mul(coeff[1], t.x)), coeff[2])
    /\ Fq2Zero = Fq2Sub(Fq2Sub(p.y, Fq2Mul(coeff[1], p.x)), coeff[2])

\* the affine point addition_verify computes: x3 = alpha^2 - x1 - x2
AdditionVerifyNext(coeff, t, p) ==
    LET x3 == Fq2Sub(Fq2Sub(Fq2Square(coeff[1]), t.x), p.x)
        y3 == Fq2Sub(Fq2Neg(Fq2Mul(coeff[1], x3)), coeff[2])
    IN  G2Affine(x3, y3)

\* addition_verify of from_affine: Some(t3), None when an assertion fails
OnProve_addition_verify(coeff, r, p) ==
    LET t == G2ToAffine(r)
    IN  IF AdditionVerifyHolds(coeff, t, p)
        THEN Some(G2FromAffine(AdditionVerifyNext(coeff, t, p)))
        ELSE None

\* st = [r, steps, abort]; abort names the panic that ended the call. A step
\* records its kind and coefficient, the point r it was taken at, its second
\* operand and the point r after it, all affine.
OnProveAbort(st, what) == [st EXCEPT !.abort = what]

\* push(doubling_step); double_verify; r = r.double(); assert_eq!(r, t3)
OnProve_double(st) ==
    IF st.abort # "none" THEN st
    ELSE LET c == OnProve_doubling_step(st.r)
         IN  IF ~c.is_some THEN OnProveAbort(st, "unwrap")
             ELSE LET t3 == OnProve_double_verify(c.value, st.r)
                      r2 == G2Double(st.r)
                  IN  IF ~t3.is_some THEN OnProveAbort(st, "verify")
                      ELSE IF ~G2Eq(r2, t3.value) THEN OnProveAbort(st, "assert_eq")
                      ELSE [r |-> r2,
                            steps |-> Append(st.steps,
                                [kind |-> "doubling", coeff |-> c.value,
                                 at |-> G2ToAffine(st.r), with |-> G2ToAffine(st.r),
                                 next |-> G2ToAffine(r2)]),
                            abort |-> "none"]

\* push(addition_step); addition_verify; r = r + q; assert_eq!(r, t3)
OnProve_add(st, kind, q) ==
    IF st.abort # "none" THEN st
    ELSE LET c == OnProve_addition_step(st.r, q)
         IN  IF ~c.is_some THEN OnProveAbort(st, "unwrap")
             ELSE LET t3 == OnProve_addition_verify(c.value, st.r, q)
                      r2 == G2AddAffine(st.r, q)
                  IN  IF ~t3.is_some THEN OnProveAbort(st, "verify")
                      ELSE IF ~G2Eq(r2, t3.value) THEN OnProveAbort(st, "assert_eq")
                      ELSE [r |-> r2,
                            steps |-> Append(st.steps,
                                [kind |-> kind, coeff |-> c.value,
                                 at |-> G2ToAffine(st.r), with |-> q,
                                 next |-> G2ToAffine(r2)]),
                            abort |-> "none"]

\* mutant: a pass that pushes no coefficient for the digit -1
OnProve_pass_without_minus_one(st, q, i) ==
    Then(OnProve_double(st),
         LAMBDA d :
            LET x == NafDigit(i - 1)
            IN  IF x = 1 THEN OnProve_add(d, "addition", q)
                ELSE IF x = -1
                THEN [d EXCEPT !.r = G2AddAffine(d.r, G2AffineNeg(q))]
                ELSE d)

\* the body of one pass of `for i in (1..SIX_U_PLUS_2_NAF.len()).rev()`
OnProve_pass(st, q, i) ==
    Then(OnProve_double(st),
         LAMBDA d :
            LET x == NafDigit(i - 1)
            IN  IF x = 1 THEN OnProve_add(d, "addition", q)
                ELSE IF x = -1 THEN OnProve_add(d, "addition", G2AffineNeg(q))
                ELSE d)

\* the run of from_affine for a non-identity q: [r, steps, abort]
OnProve_run(q) ==
    Then(ForRev64([r |-> G2FromAffine(q), steps |-> <<>>, abort |-> "none"], NafLen - 1,
                  LAMBDA st, i : OnProve_pass(st, q, i)),
         LAMBDA looped :
    Then(OnProve_add(looped, "frobenius", FrobeniusQ1(q)),
         LAMBDA l1 : OnProve_add(l1, "frobenius", FrobeniusMinusQ2(q))))

\* mutant: the record of the identity keeps infinity = false
G2OnProvePrepared_from_affine_identity_not_flagged(q) ==
    IF G2AffineIsIdentity(q)
    THEN [coeffs |-> <<>>, infinity |-> FALSE, init_q |-> q, abort |-> "none"]
    ELSE Then(OnProve_run(q),
              LAMBDA run :
                IF run.abort # "none"
                THEN [coeffs |-> <<>>, infinity |-> FALSE, init_q |-> q, abort |-> run.abort]
                ELSE [coeffs |-> [j \in 1..Len(run.steps) |-> run.steps[j].coeff],
                      infinity |-> FALSE, init_q |-> q, abort |-> "none"])

\* The record from_affine returns; abort names the panic when the call ends
\* in one (no record is returned then).
G2OnProvePrepared_from_affine(q) ==
    IF G2AffineIsIdentity(q)
    THEN [coeffs |-> <<>>, infinity |-> TRUE, init_q |-> q, abort |-> "none"]
    ELSE Then(OnProve_run(q),
              LAMBDA run :
                IF run.abort # "none"
                THEN [coeffs |-> <<>>, infinity |-> FALSE, init_q |-> q, abort |-> run.abort]
                ELSE [coeffs |-> [j \in 1..Len(run.steps) |-> run.steps[j].coeff],
                      infinity |-> FALSE, init_q |-> q, abort |-> "none"])

(***************************************************************************)
(* Integers wider than 32 bits: a number is the sequence of its            *)
(* digits, most significant first, and is used through its residues        *)
(***************************************************************************)
RECURSIVE PowMod(_, _, _)
PowMod(b, e, m) ==
    IF e = 0 THEN 1 % m
    ELSE LET half == PowMod(b, e \div 2, m)
             sq == (half * half) % m
         IN  IF e % 2 = 1 THEN (sq * (b % m)) % m ELSE sq

\* the number with digits d[lo..hi] in the given base, modulo m
RECURSIVE DigitsModRange(_, _, _, _, _)
DigitsModRange(d, base, lo, hi, m) ==
    IF lo = hi THEN d[lo] % m
    ELSE LET mid == (lo + hi) \div 2
         IN  (DigitsModRange(d, base, lo, mid, m) * PowMod(base, hi - mid, m)
                + DigitsModRange(d, base, mid + 1, hi, m)) % m

DecimalMod(d, m) == DigitsModRange(d, 10, 1, Len(d), m)
HexMod(d, m) == DigitsModRange(d, 16, 1, Len(d), m)

\* the inverse of a modulo m, for a coprime to m
InverseMod(a, m) == CHOOSE b \in 0..(m - 1) : (a * b) % m = 1 % m

\* d >> 1 for a decimal digit sequence d
Halve(d) ==
    [j \in 1..Len(d) |-> ((IF j = 1 THEN 0 ELSE d[j - 1] % 2) * 10 + d[j]) \div 2]

\* the 64 bits of the u64 with decimal digits d, least significant first
BitsOfU64(d) ==
    ForRev64([d |-> d, bits |-> <<>>], 64,
             LAMBDA st, i : [d |-> Halve(st.d),
                             bits |-> Append(st.bits, st.d[Len(st.d)] % 2)]).bits

\* pub const BN_X: u64 = 4965661367192848881
BN_X ==
    << 4, 9, 6, 5, 6, 6, 1, 3, 6, 7, 1, 9, 2, 8, 4, 8, 8, 8, 1 >>

BN_X_BITS == BitsOfU64(BN_X)

\* Fq::MODULUS, the hexadecimal string 0x30644e72..d87cfd47
FQ_MODULUS_HEX ==
    << 3, 0, 6, 4, 4, 14, 7, 2, 14, 1, 3, 1, 10, 0, 2, 9, 11, 8, 5, 0, 4, 5, 11, 6, 8, 1, 8, 1, 5, 8, 5, 13,
       9, 7, 8, 1, 6, 10, 9, 1, 6, 8, 7, 1, 12, 10, 8, 13, 3, 12, 2, 0, 8, 12, 1, 6, 13, 8, 7, 12, 15, 13, 4, 7 >>

\* r and lambda of compute_c_wi, the decimal strings
R_DECIMAL ==
    << 2, 1, 8, 8, 8, 2, 4, 2, 8, 7, 1, 8, 3, 9, 2, 7, 5, 2, 2, 2, 2, 4, 6, 4, 0, 5, 7, 4, 5, 2, 5, 7, 2, 7, 5, 0, 8, 8,
       5, 4, 8, 3, 6, 4, 4, 0, 0, 4, 1, 6, 0, 3, 4, 3, 4, 3, 6, 9, 8, 2, 0, 4, 1, 8, 6, 5, 7, 5, 8, 0, 8, 4, 9, 5, 6, 1,
       7 >>

LAMBDA_DECIMAL ==
    << 1, 0, 4, 8, 6, 5, 5, 1, 5, 7, 1, 3, 7, 8, 4, 2, 7, 8, 1, 8, 9, 0, 5, 1, 3, 3, 0, 7, 7, 4, 5, 7, 5, 0, 5, 9, 7, 5,
       1, 4, 6, 6, 5, 2, 5, 7, 9, 0, 1, 1, 7, 9, 7, 1, 7, 5, 3, 9, 9, 1, 6, 9, 3, 5, 5, 8, 8, 1, 7, 7, 1, 9, 8, 1, 0, 9,
       5, 2, 1, 1, 8, 8, 3, 8, 1, 3, 7, 4, 4, 4, 9, 9, 7, 4, 5, 5, 5, 8, 4, 0, 9, 7, 8, 9, 0, 0, 5, 1, 3, 2, 1, 3, 5, 4,
       9, 6, 7, 7, 0, 9, 4, 1, 2, 9, 2, 9, 8, 9, 4, 2, 1, 4, 3, 1, 2, 3, 5, 2, 7, 6, 2, 2, 1, 1, 4, 7, 1, 4, 8, 8, 5, 8,
       3, 8, 4, 7, 7, 2, 0, 9, 6, 7, 7, 8, 4, 3, 2, 2, 4, 3, 2, 0, 7, 1, 8, 8, 8, 7, 8, 5, 9, 8, 1, 9, 8, 8, 5, 0, 2, 7,
       6, 8, 4, 2, 4, 5, 8, 9, 1, 3, 3, 4, 9, 8, 1, 7, 0, 0, 7, 3, 0, 2, 7, 5, 2, 5, 3, 4, 8, 9, 2, 1, 2, 7, 3, 2, 5, 2,
       6, 9 >>

(***************************************************************************)
(* Fq12, through its quotient of order Fq12Order: the prime field of       *)
(* Fq12Modulus elements. Fq12Order = 2^2 * 3^3 * 5 divides p^12 - 1 and    *)
(* holds its whole 3-part; 5 divides p^6 + 1, so conjugation is not the    *)
(* identity on it. An exponent acts through its residue modulo Fq12Order.  *)
(***************************************************************************)
Fq12Modulus == 541
Fq12Order == Fq12Modulus - 1
Fq12 == 0..(Fq12Modulus - 1)
Fq12Zero == 0
Fq12One == 1

Fq12Mul(a, b) == (a * b) % Fq12Modulus
Fq12Square(a) == Fq12Mul(a, a)
\* a^e for an exponent given by its residue e modulo Fq12Order
Fq12Pow(a, e) == IF a = 0 THEN (IF e = 0 THEN 1 ELSE 0) ELSE PowMod(a, e, Fq12Modulus)
Fq12Invert(a) == IF a = 0 THEN None ELSE Some(Fq12Pow(a, Fq12Order - 1))

\* p modulo n, and (p^12 - 1) modulo n
PMod(n) == HexMod(FQ_MODULUS_HEX, n)
P12Minus1Mod(n) == (PowMod(PMod(n), 12, n) + n - 1) % n

\* frobenius_map(power): a -> a^(p^power)
Fq12Frobenius(a, power) == Fq12Pow(a, PowMod(PMod(Fq12Order), power, Fq12Order))
\* conjugate: the Frobenius of Fq12 over Fq6
Fq12Conjugate(a) == Fq12Frobenius(a, 6)
Fq12CyclotomicSquare(a) == Fq12Square(a)

\* The sparse element with c0, c1, c4 at the positions 0, 3, 4. Its image in
\* the quotient is not computed from the tower: it is a fixed arbitrary
\* function, zero on (0, 0, 0) and a unit elsewhere.
Fq2Index(a) == a.c0 + FqModulus * a.c1
Sparse034(c0, c1, c4) ==
    IF c0 = Fq2Zero /\ c1 = Fq2Zero /\ c4 = Fq2Zero THEN Fq12Zero
    ELSE 1 + ((Fq2Index(c0) + 7 * Fq2Index(c1) + 11 * Fq2Index(c4)) % Fq12Order)

Fq12_mul_by_034(f, c0, c1, c4) == Fq12Mul(f, Sparse034(c0, c1, c4))

(***************************************************************************)
(* G1: affine points (x, y) of y^2 = x^3 + 3 over Fq, identity (0, 0)      *)
(***************************************************************************)
G1Affine(x, y) == [x |-> x % FqModulus, y |-> y % FqModulus]
G1AffineIdentity == G1Affine(0, 0)
G1AffineIsIdentity(p) == p.x = 0 /\ p.y = 0
G1OnCurve(p) == (p.y * p.y) % FqModulus = (p.x * p.x * p.x + 3) % FqModulus

(***************************************************************************)
(* The Miller loops. A call is run on a loop state                          *)
(*   [f, pos, next_qs, panic, squarings, ells]                              *)
(* f the accumulator, pos[j] the number of coefficients pair j's iterator   *)
(* has yielded, next_qs the points the on-prove loop verifies against,      *)
(* panic the assertion or unwrap that ended the call ("none" while it       *)
(* runs); squarings and ells count the square_assign and ell applications   *)
(* made on f.                                                               *)
(***************************************************************************)
Ok(v) == [ok |-> TRUE, value |-> v]
Panic(what) == [ok |-> FALSE, panic |-> what]

\* what the call returns: Gt(f), or the panic that ended it
Result(run) == IF run.panic = "none" THEN Ok(run.f) ELSE Panic(run.panic)

\* mutant: a filter that keeps the terms whose G2 record is zero
IsSurviving_ignoring_is_zero(t) == ~G1AffineIsIdentity(t.p)

\* !p.is_identity() && !q.is_zero()
IsSurviving(t) == ~G1AffineIsIdentity(t.p) /\ ~t.q.infinity

\* pairs: the terms the filter keeps, each with an iterator over q.coeffs
Pairs(terms) == SelectSeq(terms, IsSurviving)

\* what a loop did to f, in order: Event("square", 0, 0), Event("mul", v, 0)
\* for f.mul_assign(v), Event("ell", j, k) for ell on the k-th coefficient of
\* pair j
Event(op, a, b) == [op |-> op, a |-> a, b |-> b]

\* the state of a loop: the accumulator, the position of each pair's
\* iterator, the verifier's running points, the panic that ended the call,
\* and the record of what was done (trace; verified, one entry per
\* coefficient the verifier accepted)
LoopInit(f, pairs, next_qs) ==
    [f |-> f, pos |-> [j \in 1..Len(pairs) |-> 0], next_qs |-> next_qs,
     panic |-> "none", squarings |-> 0, ells |-> 0, trace |-> <<>>, verified |-> <<>>]

PanicWith(ls, what) == [ls EXCEPT !.panic = what]

\* ell of multi_miller_loop and of multi_miller_loop_c_wi
Ell(f, coeffs, p) ==
    LET c0 == Fq2Scale(coeffs[1], p.y)
        c1 == Fq2Scale(coeffs[2], p.x)
    IN  Fq12_mul_by_034(f, c0, c1, coeffs[3])

\* ell of the on-prove loops: -y + alpha*x*z + bias*z^3
EllOnProve(f, coeffs, p) ==
    LET minus_one == Fq2Neg(Fq2One)
        c0 == Fq2Of(minus_one.c0 * p.y, minus_one.c1)
        c1 == Fq2Scale(coeffs[1], p.x)
    IN  Fq12_mul_by_034(f, c0, c1, coeffs[2])

EllOf(shape, f, coeffs, p) ==
    IF shape = "jacobian" THEN Ell(f, coeffs, p) ELSE EllOnProve(f, coeffs, p)

\* f.square_assign()
Sq(ls) ==
    IF ls.panic # "none" THEN ls
    ELSE [ls EXCEPT !.f = Fq12Square(@), !.squarings = @ + 1,
                    !.trace = Append(@, Event("square", 0, 0))]

\* f.mul_assign(v)
MulBy(ls, v) ==
    IF ls.panic # "none" THEN ls
    ELSE [ls EXCEPT !.f = Fq12Mul(@, v), !.trace = Append(@, Event("mul", v, 0))]

\* mutant: an iterator that drops a coefficient before the one it yields
NextEll_skipping_one(ls, pairs, shape, j) ==
    IF ls.panic # "none" THEN ls
    ELSE IF ls.pos[j] + 1 >= Len(pairs[j].q.coeffs) THEN PanicWith(ls, "unwrap")
    ELSE [ls EXCEPT !.f = EllOf(shape, @, pairs[j].q.coeffs[ls.pos[j] + 2], pairs[j].p),
                    !.pos[j] = @ + 2,
                    !.ells = @ + 1,
                    !.trace = Append(@, Event("ell", j, ls.pos[j] + 2))]

\* ell(&mut f, coeffs.next().unwrap(), &p) for pair j
NextEll(ls, pairs, shape, j) ==
    IF ls.panic # "none" THEN ls
    ELSE IF ls.pos[j] >= Len(pairs[j].q.coeffs) THEN PanicWith(ls, "unwrap")
    ELSE [ls EXCEPT !.f = EllOf(shape, @, pairs[j].q.coeffs[ls.pos[j] + 1], pairs[j].p),
                    !.pos[j] = @ + 1,
                    !.ells = @ + 1,
                    !.trace = Append(@, Event("ell", j, ls.pos[j] + 1))]

\* mutant: the line evaluation of the first pair only
ForPairs_first_pair_only(ls, pairs, shape, j) ==
    IF j > Len(pairs) \/ j > 1 THEN ls ELSE NextEll(ls, pairs, shape, j)

\* for &mut (p, ref mut coeffs) in &mut pairs { ell(..) }, from pair j on
RECURSIVE ForPairs(_, _, _, _)
ForPairs(ls, pairs, shape, j) ==
    IF j > Len(pairs) THEN ls
    ELSE Then(NextEll(ls, pairs, shape, j),
              LAMBDA s : ForPairs(s, pairs, shape, j + 1))

\* mutant: a loop that ends without looking at what is left of the lists
AssertExhausted_skipped(ls, pairs) == ls

\* for (_p, coeffs) in pairs { assert_eq!(coeffs.next(), None) }
AssertExhausted(ls, pairs) ==
    IF ls.panic # "none" THEN ls
    ELSE IF \E j \in 1..Len(pairs) : ls.pos[j] # Len(pairs[j].q.coeffs)
    THEN PanicWith(ls, "assert_exhausted")
    ELSE ls

\* assert_eq!(f, Fq12::one())
AssertOne(ls) ==
    IF ls.panic # "none" THEN ls
    ELSE IF ls.f # Fq12One THEN PanicWith(ls, "assert_one")
    ELSE ls

\* mutant: a pass that squares f in the first iteration too
MillerLoop_pass_squaring_always(ls, pairs, shape, i) ==
    Then(Sq(ls),
         LAMBDA s1 :
    Then(ForPairs(s1, pairs, shape, 1),
         LAMBDA s2 :
            IF NafDigit(i - 1) # 0 THEN ForPairs(s2, pairs, shape, 1) ELSE s2))

\* mutant: a pass that makes no addition at a digit -1
MillerLoop_pass_without_minus_one(ls, pairs, shape, i) ==
    Then(IF i # NafLen - 1 THEN Sq(ls) ELSE ls,
         LAMBDA s1 :
    Then(ForPairs(s1, pairs, shape, 1),
         LAMBDA s2 :
            IF NafDigit(i - 1) = 1 THEN ForPairs(s2, pairs, shape, 1) ELSE s2))

\* one pass of the loop of multi_miller_loop (shape "jacobian") and of
\* multi_miller_loop_on_prove_pairing_prepare (shape "on_prove")
MillerLoop_pass(ls, pairs, shape, i) ==
    Then(IF i # NafLen - 1 THEN Sq(ls) ELSE ls,
         LAMBDA s1 :
    Then(ForPairs(s1, pairs, shape, 1),
         LAMBDA s2 :
            LET x == NafDigit(i - 1)
            IN  IF x = 1 THEN ForPairs(s2, pairs, shape, 1)
                ELSE IF x = -1 THEN ForPairs(s2, pairs, shape, 1)
                ELSE s2))

\* the loop, the two trailing additions and the exhaustion assertions
MillerLoop_run(pairs, shape) ==
    Then(ForRev64(LoopInit(Fq12One, pairs, <<>>), NafLen - 1,
                  LAMBDA st, i : MillerLoop_pass(st, pairs, shape, i)),
         LAMBDA looped :
    Then(ForPairs(looped, pairs, shape, 1),
         LAMBDA t1 :
    Then(ForPairs(t1, pairs, shape, 1),
         LAMBDA t2 : AssertExhausted(t2, pairs))))

multi_miller_loop_run(terms) ==
    Then(Pairs(terms), LAMBDA pairs : MillerLoop_run(pairs, "jacobian"))

multi_miller_loop(terms) == Result(multi_miller_loop_run(terms))

multi_miller_loop_on_prove_pairing_prepare_run(terms) ==
    Then(Pairs(terms), LAMBDA pairs : MillerLoop_run(pairs, "on_prove"))

multi_miller_loop_on_prove_pairing_prepare(terms) ==
    Result(multi_miller_loop_on_prove_pairing_prepare_run(terms))

\* mutant: a pass that multiplies by c or c_inv after the doubling lines
CWi_pass_scaling_after_lines(ls, pairs, c, c_inv, i) ==
    LET x == NafDigit(i - 1)
    IN  Then(Sq(ls),
             LAMBDA s0 :
        Then(ForPairs(s0, pairs, "jacobian", 1),
             LAMBDA s1 :
        Then(IF x = 1 THEN MulBy(s1, c_inv) ELSE IF x = -1 THEN MulBy(s1, c) ELSE s1,
             LAMBDA s2 :
                IF x # 0 THEN ForPairs(s2, pairs, "jacobian", 1) ELSE s2)))

\* one pass of the loop of multi_miller_loop_c_wi
CWi_pass(ls, pairs, c, c_inv, i) ==
    LET x == NafDigit(i - 1)
    IN  Then(Sq(ls),
             LAMBDA s0 :
        Then(IF x = 1 THEN MulBy(s0, c_inv) ELSE IF x = -1 THEN MulBy(s0, c) ELSE s0,
             LAMBDA s1 :
        Then(ForPairs(s1, pairs, "jacobian", 1),
             LAMBDA s2 :
                IF x = 1 THEN ForPairs(s2, pairs, "jacobian", 1)
                ELSE IF x = -1 THEN ForPairs(s2, pairs, "jacobian", 1)
                ELSE s2)))

\* mutant: the scaling without the factor wi
ScaleByWitness_without_wi(ls, c, c_inv, wi) ==
    MulBy(MulBy(MulBy(ls, Fq12Frobenius(c_inv, 1)), Fq12Frobenius(c, 2)),
          Fq12Frobenius(c_inv, 3))

\* mutant: the scaling by c_inv, c, c_inv without their Frobenius maps
ScaleByWitness_without_frobenius(ls, c, c_inv, wi) ==
    MulBy(MulBy(MulBy(MulBy(ls, c_inv), c), c_inv), wi)

\* f = f * c_inv^p * c^(p^2) * c_inv^(p^3) * wi
ScaleByWitness(ls, c, c_inv, wi) ==
    MulBy(MulBy(MulBy(MulBy(ls, Fq12Frobenius(c_inv, 1)), Fq12Frobenius(c, 2)),
                Fq12Frobenius(c_inv, 3)), wi)

\* mutant: a call that returns f without the closing assertion on it
multi_miller_loop_c_wi_run_unasserted(c, wi, terms) ==
    Then(Pairs(terms),
         LAMBDA pairs :
            LET c_inv == Fq12Invert(c)
            IN  IF ~c_inv.is_some
                THEN PanicWith(LoopInit(c, pairs, <<>>), "unwrap")
                ELSE Then(ForRev64(LoopInit(c_inv.value, pairs, <<>>), NafLen - 1,
                                   LAMBDA st, i : CWi_pass(st, pairs, c, c_inv.value, i)),
                          LAMBDA looped :
                     Then(ScaleByWitness(looped, c, c_inv.value, wi),
                          LAMBDA scaled :
                     Then(ForPairs(scaled, pairs, "jacobian", 1),
                          LAMBDA t1 :
                     Then(ForPairs(t1, pairs, "jacobian", 1),
                          LAMBDA t2 : AssertExhausted(t2, pairs))))))

multi_miller_loop_c_wi_run(c, wi, terms) ==
    Then(Pairs(terms),
         LAMBDA pairs :
            LET c_inv == Fq12Invert(c)
            IN  IF ~c_inv.is_some
                THEN PanicWith(LoopInit(c, pairs, <<>>), "unwrap")
                ELSE Then(ForRev64(LoopInit(c_inv.value, pairs, <<>>), NafLen - 1,
                                   LAMBDA st, i : CWi_pass(st, pairs, c, c_inv.value, i)),
                          LAMBDA looped :
                     Then(ScaleByWitness(looped, c, c_inv.value, wi),
                          LAMBDA scaled :
                     Then(ForPairs(scaled, pairs, "jacobian", 1),
                          LAMBDA t1 :
                     Then(ForPairs(t1, pairs, "jacobian", 1),
                          LAMBDA t2 : AssertOne(AssertExhausted(t2, pairs)))))))

multi_miller_loop_c_wi(c, wi, terms) == Result(multi_miller_loop_c_wi_run(c, wi, terms))

(***************************************************************************)
(* multi_miller_loop_on_prove_pairing: the loop that verifies each          *)
(* coefficient against the point it is zipped with                         *)
(***************************************************************************)
\* init_q, one entry per term
InitQ(terms) == [j \in 1..Len(terms) |-> terms[j].q.init_q]
\* init_frobenius_q, one (q1, minusq2) per entry of init_q
InitFrobeniusQ(init_q) ==
    [j \in 1..Len(init_q) |-> <<FrobeniusQ1(init_q[j]), FrobeniusMinusQ2(init_q[j])>>]

\* the j-th item of pairs.iter_mut().zip(next_qs.iter_mut()):
\* coeffs.next().unwrap(); double_verify(coeff, q); ell(f, coeff, p)
VerifyDouble(ls, pairs, j) ==
    IF ls.panic # "none" THEN ls
    ELSE IF ls.pos[j] >= Len(pairs[j].q.coeffs) THEN PanicWith(ls, "unwrap")
    ELSE LET coeff == pairs[j].q.coeffs[ls.pos[j] + 1]
             q == ls.next_qs[j]
         IN  IF ~DoubleVerifyHolds(coeff, q) THEN PanicWith(ls, "double_verify")
             ELSE [ls EXCEPT !.next_qs[j] = DoubleVerifyNext(coeff, q),
                             !.f = EllOnProve(@, coeff, pairs[j].p),
                             !.pos[j] = @ + 1,
                             !.ells = @ + 1,
                             !.trace = Append(@, Event("ell", j, ls.pos[j] + 1)),
                             !.verified = Append(@, [pair |-> j, k |-> ls.pos[j] + 1,
                                                     at |-> q, with |-> q,
                                                     next |-> DoubleVerifyNext(coeff, q)])]

\* mutant: the addition coefficient handed to ell without addition_verify
VerifyAdd_unchecked(ls, pairs, others, j) ==
    IF ls.panic # "none" THEN ls
    ELSE IF ls.pos[j] >= Len(pairs[j].q.coeffs) THEN PanicWith(ls, "unwrap")
    ELSE LET coeff == pairs[j].q.coeffs[ls.pos[j] + 1]
             q == ls.next_qs[j]
         IN  [ls EXCEPT !.next_qs[j] = AdditionVerifyNext(coeff, q, others[j]),
                        !.f = EllOnProve(@, coeff, pairs[j].p),
                        !.pos[j] = @ + 1,
                        !.ells = @ + 1,
                        !.trace = Append(@, Event("ell", j, ls.pos[j] + 1))]

\* the j-th item of pairs.zip(next_qs).zip(others):
\* coeffs.next().unwrap(); addition_verify(coeff, q, other); ell(f, coeff, p)
VerifyAdd(ls, pairs, others, j) ==
    IF ls.panic # "none" THEN ls
    ELSE IF ls.pos[j] >= Len(pairs[j].q.coeffs) THEN PanicWith(ls, "unwrap")
    ELSE LET coeff == pairs[j].q.coeffs[ls.pos[j] + 1]
             q == ls.next_qs[j]
         IN  IF ~AdditionVerifyHolds(coeff, q, others[j]) THEN PanicWith(ls, "addition_verify")
             ELSE [ls EXCEPT !.next_qs[j] = AdditionVerifyNext(coeff, q, others[j]),
                             !.f = EllOnProve(@, coeff, pairs[j].p),
                             !.pos[j] = @ + 1,
                             !.ells = @ + 1,
                             !.trace = Append(@, Event("ell", j, ls.pos[j] + 1)),
                             !.verified = Append(@, [pair |-> j, k |-> ls.pos[j] + 1,
                                                     at |-> q, with |-> others[j],
                                                     next |-> AdditionVerifyNext(coeff, q, others[j])])]

\* the length of a zip: that of its shorter side
ZipLen(a, b) == IF Len(a) <= Len(b) THEN Len(a) ELSE Len(b)

RECURSIVE ForZipDouble(_, _, _)
ForZipDouble(ls, pairs, j) ==
    IF j > ZipLen(pairs, ls.next_qs) THEN ls
    ELSE Then(VerifyDouble(ls, pairs, j), LAMBDA s : ForZipDouble(s, pairs, j + 1))

RECURSIVE ForZipAdd(_, _, _, _)
ForZipAdd(ls, pairs, others, j) ==
    IF j > ZipLen(pairs, ls.next_qs) \/ j > Len(others) THEN ls
    ELSE Then(VerifyAdd(ls, pairs, others, j), LAMBDA s : ForZipAdd(s, pairs, others, j + 1))

\* one pass of the loop of multi_miller_loop_on_prove_pairing
OnProvePairing_pass(ls, pairs, init_q, c, c_inv, i) ==
    LET x == NafDigit(i - 1)
    IN  Then(Sq(ls),
             LAMBDA s0 :
        Then(IF x = 1 THEN MulBy(s0, c_inv) ELSE IF x = -1 THEN MulBy(s0, c) ELSE s0,
             LAMBDA s1 :
        Then(ForZipDouble(s1, pairs, 1),
             LAMBDA s2 :
                IF x = 1 THEN ForZipAdd(s2, pairs, init_q, 1)
                ELSE IF x = -1
                THEN ForZipAdd(s2, pairs, [j \in 1..Len(init_q) |-> G2AffineNeg(init_q[j])], 1)
                ELSE s2)))

multi_miller_loop_on_prove_pairing_run(c, wi, terms) ==
    Then(Pairs(terms),
         LAMBDA pairs :
    Then(InitQ(terms),
         LAMBDA init_q :
    Then(InitFrobeniusQ(init_q),
         LAMBDA init_frobenius_q :
            LET c_inv == Fq12Invert(c)
            IN  IF ~c_inv.is_some
                THEN PanicWith(LoopInit(c, pairs, init_q), "unwrap")
                ELSE Then(ForRev64(LoopInit(c_inv.value, pairs, init_q), NafLen - 1,
                                   LAMBDA st, i :
                                      OnProvePairing_pass(st, pairs, init_q, c, c_inv.value, i)),
                          LAMBDA looped :
                     Then(ScaleByWitness(looped, c, c_inv.value, wi),
                          LAMBDA scaled :
                     Then(ForZipAdd(scaled, pairs,
                                    [j \in 1..Len(init_q) |-> init_frobenius_q[j][1]], 1),
                          LAMBDA t1 :
                     Then(ForZipAdd(t1, pairs,
                                    [j \in 1..Len(init_q) |-> init_frobenius_q[j][2]], 1),
                          LAMBDA t2 : AssertOne(AssertExhausted(t2, pairs))))))))) 

multi_miller_loop_on_prove_pairing(c, wi, terms) ==
    Result(multi_miller_loop_on_prove_pairing_run(c, wi, terms))

(***************************************************************************)
(* to_naf and the digit lists of src/src/tests/field.rs. A BigUint is the   *)
(* sequence of its bits, least significant first, without leading zeros     *)
(* (zero is the empty sequence).                                            *)
(***************************************************************************)
\* the bits of a natural number n
RECURSIVE BitsOfNat(_)
BitsOfNat(n) == IF n = 0 THEN <<>> ELSE <<n % 2>> \o BitsOfNat(n \div 2)

\* a bit sequence without its leading (last) zeros
Normalized(b) ==
    LET ones == {j \in 1..Len(b) : b[j] = 1}
        top == IF ones = {} THEN 0 ELSE CHOOSE j \in ones : \A k \in ones : k <= j
    IN  SubSeq(b, 1, top)

\* a + b on bit sequences: the carry into position j comes from a position
\* i < j where both bits are set, handed on by every position in between
BigBit(a, j) == IF j <= Len(a) THEN a[j] ELSE 0
BigCarry(a, b, j) ==
    IF \E i \in 1..(j - 1) :
          /\ BigBit(a, i) + BigBit(b, i) = 2
          /\ \A k \in (i + 1)..(j - 1) : BigBit(a, k) + BigBit(b, k) >= 1
    THEN 1 ELSE 0
BigAdd(a, b) ==
    LET n == (IF Len(a) > Len(b) THEN Len(a) ELSE Len(b)) + 1
    IN  Normalized(Then(a, LAMBDA x : Then(b, LAMBDA y :
            [j \in 1..n |-> (BigBit(x, j) + BigBit(y, j) + BigCarry(x, y, j)) % 2])))

\* x << n, for x /= 0
BigShl(x, n) == IF x = <<>> THEN <<>> ELSE [j \in 1..n |-> 0] \o x

\* a `while` loop whose body does nothing once the loop condition fails,
\* for the loops that end within 128 passes (the numbers are below 2^127)
While128(st, Body(_)) ==
    Then(ForRev64(st, 127, LAMBDA s, i : Body(s)),
         LAMBDA s1 : ForRev64(s1, 63, LAMBDA s, i : Body(s)))

\* BigUint::from_str: the bits of the number with decimal digits d
BigFromDecimal_pass(st) ==
    IF \A j \in 1..Len(st.d) : st.d[j] = 0 THEN st
    ELSE [d |-> Halve(st.d), bits |-> Append(st.bits, st.d[Len(st.d)] % 2)]
BigFromDecimal(d) == While128([d |-> d, bits |-> <<>>], BigFromDecimal_pass).bits

\* mutant: an odd x always gives the digit +1
ToNaf_digit_always_plus(x) ==
    IF x[1] = 0 THEN [zi |-> 0, x |-> Normalized(Tail(x))]
    ELSE [zi |-> 1, x |-> Normalized(Tail([x EXCEPT ![1] = 0]))]

\* one pass of `while x > zero`: the digit pushed and the next x
ToNaf_digit(x) ==
    IF x[1] = 0 THEN [zi |-> 0, x |-> Normalized(Tail(x))]
    ELSE IF Len(x) = 1 \/ x[2] = 0
    THEN [zi |-> 1, x |-> Normalized(Tail([x EXCEPT ![1] = 0]))]
    ELSE [zi |-> -1, x |-> Normalized(Tail(BigAdd(x, <<1>>)))]

\* while x > zero { .. }
ToNaf_pass(st) ==
    IF st.x = <<>> THEN st
    ELSE LET d == ToNaf_digit(st.x)
         IN  [x |-> d.x, z |-> Append(st.z, d.zi)]

\* fn to_naf(x: &BigUint) -> Vec<i8>
to_naf(x) == While128([x |-> x, z |-> <<>>], ToNaf_pass).z

\* const SIX_U_PLUS_2_NAF_V: [i8; 65]
SIX_U_PLUS_2_NAF_V ==
    << 0, 0, 0, 1, 0, 1, 0, -1, 0, 0, 1, -1, 0, 0, 1, 0, 0, 1, 1, 0, -1, 0, 0, 1, 0, -1, 0, 0, 0, 0,
       1, 1, 1, 0, 0, -1, 0, 0, 1, 0, 0, 0, 0, 0, -1, 0, 0, 1, 1, 0, 0, -1, 0, 0, 0, 1, 1, 0, -1, 0,
       0, 1, 0, 1, 1 >>

\* const SIX_U_PLUS_2_NAF_F: [i8; 66]
SIX_U_PLUS_2_NAF_F ==
    << 0, 0, 0, 1, 0, 1, 0, -1, 0, 0, -1, 0, 0, 0, 1, 0, 0, -1, 0, -1, 0, 0, 0, 1, 0, -1, 0, 0, 0, 0,
       -1, 0, 0, 1, 0, -1, 0, 0, 1, 0, 0, 0, 0, 0, -1, 0, 0, -1, 0, 1, 0, -1, 0, 0, 0, -1, 0, -1, 0,
       0, 0, 1, 0, -1, 0, 1 >>

\* test_naf: BigUint::from_str("29793968203157093288")
SIX_U_PLUS_2_DECIMAL ==
    << 2, 9, 7, 9, 3, 9, 6, 8, 2, 0, 3, 1, 5, 7, 0, 9, 3, 2, 8, 8 >>

\* 6 * BN_X + 2 = (BN_X << 2) + (BN_X << 1) + 2
SixUPlus2 == BigAdd(BigAdd(BigShl(BN_X_BITS, 2), BigShl(BN_X_BITS, 1)), <<0, 1>>)

(***************************************************************************)
(* Gt: the wrapper of Fq12 and its operators                                *)
(***************************************************************************)
\* Fq12 addition, the `+` of the wrapped values
Fq12Add(a, b) == (a + b) % Fq12Modulus

\* Gt::identity()
Gt_identity == Fq12One
\* Gt::double(&self): Gt(self.0.square())
Gt_double(a) == Fq12Square(a)
\* Neg for &Gt: conjugate
Gt_neg(a) == Fq12Conjugate(a)
\* Add<&Gt> for &Gt: Gt(self.0 + rhs.0)
Gt_add(a, b) == Fq12Add(a, b)
\* Sub<&Gt> for &Gt: self + (-rhs)
Gt_sub(a, b) == Gt_add(a, Gt_neg(b))
\* Mul<&Gt> for &Gt: Gt(self.0 * rhs.0)
Gt_mul(a, b) == Fq12Mul(a, b)

\* Sum for Gt: iter.fold(Self::identity(), |acc, item| acc + item)
RECURSIVE Gt_fold(_, _, _)
Gt_fold(acc, items, j) ==
    IF j > Len(items) THEN acc ELSE Gt_fold(Gt_add(acc, items[j]), items, j + 1)
Gt_sum(items) == Gt_fold(Gt_identity, items, 1)

\* Fr::to_repr(): 32 bytes, little-endian; bit n of the 256-bit value of a
\* scalar k below 2^24
FrReprBits == 256
RECURSIVE Pow2(_)
Pow2(n) == IF n = 0 THEN 1 ELSE 2 * Pow2(n - 1)
FrReprBit(k, n) == IF n >= 24 THEN 0 ELSE (k \div Pow2(n)) % 2

\* one item of the bit iterator, most significant first; skip(1) drops the
\* item of bit 255
GtMulFr_pass(acc, a, k, n) ==
    IF n = FrReprBits - 1 THEN acc
    ELSE LET doubled == Gt_double(acc)
         IN  IF FrReprBit(k, n) = 1 THEN Gt_add(doubled, a) ELSE doubled

\* Mul<&Fr> for &Gt
Gt_mul_fr(a, k) ==
    Then(ForRev64(Gt_identity, 255, LAMBDA acc, n : GtMulFr_pass(acc, a, k, n)),
         LAMBDA s1 :
    Then(ForRev64(s1, 191, LAMBDA acc, n : GtMulFr_pass(acc, a, k, n)),
         LAMBDA s2 :
    Then(ForRev64(s2, 127, LAMBDA acc, n : GtMulFr_pass(acc, a, k, n)),
         LAMBDA s3 : ForRev64(s3, 63, LAMBDA acc, n : GtMulFr_pass(acc, a, k, n)))))

(***************************************************************************)
(* Gt::final_exponentiation and pairing                                    *)
(***************************************************************************)
\* exp_by_x: square-and-multiply over the bits 63..0 of BN_X
exp_by_x(f) ==
    ForRev64(Fq12One, 64,
             LAMBDA res, i :
                LET sq == Fq12CyclotomicSquare(res)
                IN  IF BN_X_BITS[i] = 1 THEN Fq12Mul(sq, f) ELSE sq)

\* the closure mapped over r.invert(): f1 the conjugate of r, f2 its inverse
FinalExponentiation_map(f1, inv) ==
    LET f2 == Fq12Mul(f1, inv)
        r == Fq12Mul(Fq12Frobenius(f2, 2), f2)
        fp == Fq12Frobenius(r, 1)
        fp2 == Fq12Frobenius(r, 2)
        fp3 == Fq12Frobenius(fp2, 1)
    IN  Then(exp_by_x(r),
             LAMBDA fu :
        Then(exp_by_x(fu),
             LAMBDA fu2 :
        Then(exp_by_x(fu2),
             LAMBDA fu3 :
                LET y3a == Fq12Frobenius(fu, 1)
                    fu2p == Fq12Frobenius(fu2, 1)
                    fu3p == Fq12Frobenius(fu3, 1)
                    y2 == Fq12Frobenius(fu2, 2)
                    y0 == Fq12Mul(Fq12Mul(fp, fp2), fp3)
                    y1 == Fq12Conjugate(r)
                    y5 == Fq12Conjugate(fu2)
                    y3 == Fq12Conjugate(y3a)
                    y4 == Fq12Conjugate(Fq12Mul(fu, fu2p))
                    y6a == Fq12Conjugate(Fq12Mul(fu3, fu3p))
                    y6b == Fq12Mul(Fq12Mul(Fq12CyclotomicSquare(y6a), y4), y5)
                    t1a == Fq12Mul(Fq12Mul(y3, y5), y6b)
                    y6c == Fq12Mul(y6b, y2)
                    t1b == Fq12CyclotomicSquare(Fq12Mul(Fq12CyclotomicSquare(t1a), y6c))
                    t0a == Fq12Mul(t1b, y1)
                    t1c == Fq12Mul(t1b, y0)
                IN  Fq12Mul(Fq12CyclotomicSquare(t0a), t1c))))

\* mutant: the inverse is unwrapped to zero instead of aborting
final_exponentiation_unwrap_or_zero(f) ==
    LET inv == Fq12Invert(f)
    IN  IF ~inv.is_some THEN Ok(Fq12Zero)
        ELSE Ok(FinalExponentiation_map(Fq12Conjugate(f), inv.value))

\* Gt(r.invert().map(..).unwrap())
final_exponentiation(f) ==
    LET inv == Fq12Invert(f)
    IN  IF ~inv.is_some THEN Panic("unwrap")
        ELSE Ok(FinalExponentiation_map(Fq12Conjugate(f), inv.value))

\* mutant: a Miller loop run on the term as given, without the filter
pairing_run_unfiltered(g1, g2) ==
    MillerLoop_run(<<[p |-> g1, q |-> G2Prepared_from_affine(g2)]>>, "jacobian")

\* pairing(g1, g2): the run of its Miller loop
pairing_run(g1, g2) ==
    multi_miller_loop_run(<<[p |-> g1, q |-> G2Prepared_from_affine(g2)]>>)

pairing(g1, g2) ==
    Then(pairing_run(g1, g2),
         LAMBDA run : IF run.panic # "none" THEN Panic(run.panic)
                      ELSE final_exponentiation(run.f))

\* mutant: the value of the Miller loop, without the final exponentiation
G2Affine_pairing_with_unexponentiated(q, p) == Result(pairing_run(p, q))

\* impl PairingCurveAffine for G2Affine: pairing(other, self)
G2Affine_pairing_with(q, p) == pairing(p, q)

\* impl PairingCurveAffine for G1Affine: pairing(self, other)
G1Affine_pairing_with(p, q) == pairing(p, q)

(***************************************************************************)
(* compute_c_wi and tonelli_shanks_cubic (src/src/tests/field.rs)           *)
(***************************************************************************)
\* let s = 3_u32; let d = 3_u32
S_3ADIC == 3
D_CUBIC == 3
RECURSIVE Pow3(_)
Pow3(n) == IF n = 0 THEN 1 ELSE 3 * Pow3(n - 1)

\* The exponents, as residues modulo n (n a multiple of Fq12Order):
\* r; t = exp / 3^s; k = (t + 1) / 3; m = lambda / r; mm = m / d
RMod(n) == DecimalMod(R_DECIMAL, n)
LambdaMod(n) == DecimalMod(LAMBDA_DECIMAL, n)
TMod(n) == P12Minus1Mod(Pow3(S_3ADIC) * n) \div Pow3(S_3ADIC)
KMod(n) == ((TMod(3 * n) + 1) % (3 * n)) \div 3
MMod(n) == (LambdaMod(n) * InverseMod(RMod(n), n)) % n
MmMod(n) == MMod(D_CUBIC * n) \div D_CUBIC

\* h = exp / r, an exact quotient
H_EXP == (P12Minus1Mod(Fq12Order) * InverseMod(RMod(Fq12Order), Fq12Order)) % Fq12Order
T_EXP == TMod(Fq12Order)
K_EXP == KMod(Fq12Order)
LAMBDA_EXP == LambdaMod(Fq12Order)
COFACTOR_CUBIC == (Pow3(S_3ADIC - 1) * T_EXP) % Fq12Order
\* r.modinv(h) and mm.modinv(r * h): Fq12Order divides h
R_INV == InverseMod(RMod(Fq12Order), Fq12Order)
MM_INV == InverseMod(MmMod(Fq12Order), Fq12Order)
\* t == 3 * k + 1, decided by t modulo 3
T_IS_3K_PLUS_1 == T_EXP % 3 = 1
\* lambda == d * mm * r, through the residues modulo Fq12Order
LAMBDA_IS_D_MM_R == LAMBDA_EXP = (D_CUBIC * MmMod(Fq12Order) * RMod(Fq12Order)) % Fq12Order

\* one pass of `for i in 1..(s as i32)`; st = [h, r, c], cc = c^e
TonelliShanks_pass(st, cc, s, i) ==
    LET delta == s - i - 1
        d == IF delta < 0
             THEN Fq12Pow(st.r, (Pow3(s + delta) * T_EXP) % Fq12Order)
             ELSE Fq12Pow(st.r, Pow3(delta))
        c3 == Fq12Pow(st.c, 3)
    IN  IF d = cc
        THEN [h |-> Fq12Mul(st.h, st.c), r |-> Fq12Mul(st.r, c3), c |-> c3]
        ELSE IF d = Fq12Pow(cc, 2)
        THEN [h |-> Fq12Mul(st.h, Fq12Pow(st.c, 2)),
              r |-> Fq12Mul(st.r, Fq12Pow(c3, 2)), c |-> c3]
        ELSE [h |-> st.h, r |-> st.r, c |-> c3]

RECURSIVE TonelliShanks_loop(_, _, _, _)
TonelliShanks_loop(st, cc, s, i) ==
    IF i >= s THEN st
    ELSE Then(TonelliShanks_pass(st, cc, s, i),
              LAMBDA next : TonelliShanks_loop(next, cc, s, i + 1))

\* tonelli_shanks_cubic(a, c, s, t, k): Ok(root) or the panic
tonelli_shanks_cubic(a, c, s) ==
    LET c_inv == Fq12Invert(c)
    IN  IF ~c_inv.is_some THEN Panic("unwrap")
        ELSE Then(TonelliShanks_loop([h |-> Fq12One, r |-> Fq12Pow(a, T_EXP), c |-> c_inv.value],
                                     Fq12Pow(c, Pow3(s - 1)), s, 1),
                  LAMBDA st :
                     LET r1 == Fq12Mul(Fq12Pow(a, K_EXP), st.h)
                         r2 == IF T_IS_3K_PLUS_1 THEN Fq12Invert(r1) ELSE Some(r1)
                     IN  IF ~r2.is_some THEN Panic("unwrap")
                         ELSE IF Fq12Pow(r2.value, 3) # a THEN Panic("assert_cube")
                         ELSE Ok(r2.value))

\* the z the sampling loops stop at: a cubic non-residue with z^t /= 1
IsSampled(z) ==
    /\ Fq12Pow(z, COFACTOR_CUBIC) # Fq12One
    /\ Fq12Pow(z, T_EXP) # Fq12One

\* mutant: w is tried and kept whatever f * w is
ChooseWi_without_square(f, w) ==
    IF Fq12Pow(f, COFACTOR_CUBIC) = Fq12One THEN Ok(Fq12One) ELSE Ok(w)

\* the choice of wi among 1, w, w^2: Ok(wi) or the panic
ChooseWi(f, w) ==
    IF Fq12Pow(f, COFACTOR_CUBIC) = Fq12One THEN Ok(Fq12One)
    ELSE IF Fq12Pow(Fq12Mul(f, w), COFACTOR_CUBIC) # Fq12One
    THEN IF Fq12Pow(Fq12Mul(Fq12Mul(f, w), w), COFACTOR_CUBIC) = Fq12One
         THEN Ok(Fq12Mul(w, w))
         ELSE Panic("assert_fww")
    ELSE Ok(w)

\* compute_c_wi(f) when the sampling has drawn z: Ok([c, wi]) or the panic
compute_c_wi(f, z) ==
    LET w == Fq12Pow(z, T_EXP)
        wi == ChooseWi(f, w)
    IN  IF Fq12Pow(f, H_EXP) # Fq12One THEN Panic("assert_f_h")
        ELSE IF Fq12Pow(w, COFACTOR_CUBIC) = Fq12One THEN Panic("assert_w_cubic")
        ELSE IF Fq12Pow(w, H_EXP) # Fq12One THEN Panic("assert_w_h")
        ELSE IF ~wi.ok THEN wi
        ELSE IF Fq12Pow(wi.value, H_EXP) # Fq12One THEN Panic("assert_wi_h")
        ELSE IF ~LAMBDA_IS_D_MM_R THEN Panic("assert_lambda")
        ELSE IF R_INV = 1 THEN Panic("assert_r_inv")
        ELSE LET f1 == Fq12Mul(f, wi.value)
                 f2 == Fq12Pow(f1, R_INV)
                 f3 == Fq12Pow(f2, MM_INV)
                 c == tonelli_shanks_cubic(f3, w, S_3ADIC)
             IN  IF f2 = Fq12One THEN Panic("assert_f2")
                 ELSE IF MM_INV = 1 THEN Panic("assert_mm_inv")
                 ELSE IF Fq12Pow(f3, COFACTOR_CUBIC) # Fq12One THEN Panic("assert_f3_cubic")
                 ELSE IF f3 = Fq12One THEN Panic("assert_f3")
                 ELSE IF ~c.ok THEN c
                 ELSE IF c.value = Fq12One THEN Panic("assert_c")
                 ELSE IF Fq12Pow(c.value, LAMBDA_EXP) # f1 THEN Panic("assert_c_lambda")
                 ELSE Ok([c |-> c.value, wi |-> wi.value])

\* pow_vartime by h, t or cofactor_cubic, none of which is zero, given by its
\* residue e modulo Fq12Order
PowByExponent(a, e) == IF a = Fq12Zero THEN Fq12Zero ELSE Fq12Pow(a, e)

\* The block that samples w and the choice of wi, step by step;
\* st = [f, pc, w, z, legendre, bodies, wi, panic], bodies counts the runs of
\* the body of `while w == Fq12::one()`.
\* let (mut w, mut z) = (Fq12::one(), Fq12::one())
SamplingStart(f) ==
    [f |-> f, pc |-> "outer", w |-> Fq12One, z |-> Fq12One, legendre |-> Fq12One,
     bodies |-> 0, wi |-> Fq12Zero, panic |-> "none"]

\* while w == Fq12::one() { let mut legendre = Fq12::one(); ..
Sample_outer(st) ==
    IF st.w = Fq12One
    THEN [st EXCEPT !.pc = "inner", !.legendre = Fq12One, !.bodies = @ + 1]
    ELSE [st EXCEPT !.pc = "asserts"]

\* z = Fq12::random(&mut OsRng); legendre = z.pow_vartime(cofactor_cubic)
Sample_draw(st, z) ==
    [st EXCEPT !.z = z, !.legendre = PowByExponent(z, COFACTOR_CUBIC)]

\* mutant: w is the cofactor_cubic-th power of z
Sample_raise_to_cofactor(st) ==
    [st EXCEPT !.w = PowByExponent(st.z, COFACTOR_CUBIC), !.pc = "outer"]

\* w = z.pow_vartime(t), at the end of the body of the outer loop
Sample_raise(st) ==
    [st EXCEPT !.w = PowByExponent(st.z, T_EXP), !.pc = "outer"]

\* assert_ne!(w^cofactor_cubic, one); assert_eq!(w^h, one)
Sample_asserts(st) ==
    IF PowByExponent(st.w, COFACTOR_CUBIC) = Fq12One
    THEN [st EXCEPT !.pc = "panic", !.panic = "assert_w_cubic"]
    ELSE IF PowByExponent(st.w, H_EXP) # Fq12One
    THEN [st EXCEPT !.pc = "panic", !.panic = "assert_w_h"]
    ELSE [st EXCEPT !.pc = "choose"]

\* let wi = if .. { one } else { .. }; assert_eq!(wi^h, one)
Sample_choose(st) ==
    LET wi == ChooseWi(st.f, st.w)
    IN  IF ~wi.ok THEN [st EXCEPT !.pc = "panic", !.panic = wi.panic]
        ELSE IF PowByExponent(wi.value, H_EXP) # Fq12One
        THEN [st EXCEPT !.pc = "panic", !.panic = "assert_wi_h"]
        ELSE [st EXCEPT !.pc = "chosen", !.wi = wi.value]

(***************************************************************************)
(* State: the inputs of the calls and what the calls returned              *)
(***************************************************************************)
VARIABLES
    q_in,           \* the G2Affine point handed to from_affine and to pairing
    prepared,       \* G2Prepared::from_affine(q_in), once called
    on_prove,       \* G2OnProvePrepared::from_affine(q_in), once called
    terms,          \* a slice of (&G1Affine, &G2Prepared)
    terms_on_prove, \* the slice of (&G1Affine, &G2OnProvePrepared)
    f_ml,           \* the Miller loop value a witness is computed from
    witness,        \* the (c, wi) handed to the verifying loops
    out,            \* the outcome of the last call of a loop or of pairing
    gt_in,          \* the Gt operands a, b and the Fr scalar k
    gt_out,         \* the result of the last Gt operator applied to gt_in
    naf_x,          \* the BigUint handed to to_naf
    naf_z,          \* to_naf(naf_x), once called
    sample          \* the locals of compute_c_wi while it samples w and chooses wi

pairing_vars == <<q_in, prepared, on_prove, terms, terms_on_prove, f_ml, witness, out>>
gt_naf_vars == <<gt_in, gt_out, naf_x, naf_z, sample>>
vars == <<pairing_vars, gt_naf_vars>>

\* what a call left behind: its result and the work done on the accumulator
Outcome(fn, run) ==
    [fn |-> fn, res |-> Result(run), f |-> run.f, pos |-> run.pos,
     squarings |-> run.squarings, ells |-> run.ells,
     trace |-> run.trace, verified |-> run.verified]

\* the sequences over S of length at most n
SeqsUpTo(S, n) == UNION {[1..k -> S] : k \in 0..n}

(***************************************************************************)
(* SpecPrep: one point q_in is prepared in both shapes and paired           *)
(***************************************************************************)
\* the points of the twist with x.c0 <= MaxG2X, and the identity
MaxG2X == 1
G2Inputs ==
    {G2AffineIdentity} \cup
    {q \in {G2Affine(x, y) : x \in {Fq2Of(a, b) : a \in 0..MaxG2X, b \in Fq}, y \in Fq2Set} :
        G2OnCurve(q)}

G1SampleA == G1Affine(1, 2)
G1SampleB == G1Affine(2, 7)
G1Inputs == {G1AffineIdentity, G1SampleA, G1SampleB}

InitPrep ==
    /\ q_in \in G2Inputs
    /\ prepared = None
    /\ on_prove = None
    /\ terms = <<>>
    /\ terms_on_prove = <<>>
    /\ f_ml = None
    /\ witness = None
    /\ out = None
    /\ gt_in = None
    /\ gt_out = None
    /\ naf_x = <<>>
    /\ naf_z = None
    /\ sample = None

Prepare ==
    /\ prepared = None
    /\ prepared' = Some(G2Prepared_from_affine(q_in))
    /\ UNCHANGED <<q_in, on_prove, terms, terms_on_prove, f_ml, witness, out>>
    /\ UNCHANGED gt_naf_vars

PrepareOnProve ==
    /\ on_prove = None
    /\ on_prove' = Some(G2OnProvePrepared_from_affine(q_in))
    /\ UNCHANGED <<q_in, prepared, terms, terms_on_prove, f_ml, witness, out>>
    /\ UNCHANGED gt_naf_vars

\* pairing(g1, q_in)
Pairing ==
    /\ out = None
    /\ \E g1 \in G1Inputs :
          out' = Some([Outcome("pairing", pairing_run(g1, q_in))
                          EXCEPT !.res = pairing(g1, q_in)] @@ [g1 |-> g1])
    /\ UNCHANGED <<q_in, prepared, on_prove, terms, terms_on_prove, f_ml, witness>>
    /\ UNCHANGED gt_naf_vars

\* g1.pairing_with(&q_in)
G1PairingWith ==
    /\ out = None
    /\ \E g1 \in G1Inputs :
          out' = Some([fn |-> "G1Affine::pairing_with", g1 |-> g1,
                       res |-> G1Affine_pairing_with(g1, q_in)])
    /\ UNCHANGED <<q_in, prepared, on_prove, terms, terms_on_prove, f_ml, witness>>
    /\ UNCHANGED gt_naf_vars

\* q_in.pairing_with(&g1)
G2PairingWith ==
    /\ out = None
    /\ \E g1 \in G1Inputs :
          out' = Some([fn |-> "G2Affine::pairing_with", g1 |-> g1,
                       res |-> G2Affine_pairing_with(q_in, g1)])
    /\ UNCHANGED <<q_in, prepared, on_prove, terms, terms_on_prove, f_ml, witness>>
    /\ UNCHANGED gt_naf_vars

NextPrep == Prepare \/ PrepareOnProve \/ Pairing \/ G1PairingWith \/ G2PairingWith

SpecPrep == InitPrep /\ [][NextPrep]_vars

(***************************************************************************)
(* Spec: each Miller loop variant called on a slice of terms. The records   *)
(* of a slice come from from_affine, or were assembled field by field       *)
(* inside the crate (coeffs is pub(crate)) with a coefficient missing or    *)
(* left over.                                                               *)
(***************************************************************************)
MaxTerms == 2

G2SampleA == G2Affine(Fq2Of(0, 2), Fq2Of(6, 8))
G2SampleB == G2Affine(Fq2Of(0, 4), Fq2Of(4, 5))

\* a record with its last coefficient dropped (d = -1) or repeated (d = 1)
Resized(rec, d) ==
    IF d = -1 THEN [rec EXCEPT !.coeffs = SubSeq(@, 1, Len(@) - 1)]
    ELSE IF d = 1 THEN [rec EXCEPT !.coeffs = Append(@, @[Len(@)])]
    ELSE rec

JacobianTerm(in) == [p |-> in.p, q |-> Resized(G2Prepared_from_affine(in.q), in.resize)]
OnProveTerm(in) == [p |-> in.p, q |-> Resized(G2OnProvePrepared_from_affine(in.q), in.resize)]

TermInputs ==
    {[p |-> G1SampleA, q |-> G2SampleA, resize |-> 0],
     [p |-> G1SampleB, q |-> G2SampleB, resize |-> 0],
     [p |-> G1AffineIdentity, q |-> G2SampleB, resize |-> 0],
     [p |-> G1SampleB, q |-> G2AffineIdentity, resize |-> 0],
     [p |-> G1SampleB, q |-> G2SampleA, resize |-> -1],
     [p |-> G1SampleA, q |-> G2SampleB, resize |-> 1],
     [p |-> G1AffineIdentity, q |-> G2SampleA, resize |-> -1]}

\* the (c, wi) a caller hands in without having computed them
WitnessInputs == {[c |-> Fq12One, wi |-> Fq12One], [c |-> 2, wi |-> 3]}

Init ==
    /\ q_in = G2AffineIdentity
    /\ prepared = None
    /\ on_prove = None
    /\ \E ins \in SeqsUpTo(TermInputs, MaxTerms) :
          /\ terms = [j \in 1..Len(ins) |-> JacobianTerm(ins[j])]
          /\ terms_on_prove = [j \in 1..Len(ins) |-> OnProveTerm(ins[j])]
    /\ f_ml = None
    /\ witness = None
    /\ out = None
    /\ gt_in = None
    /\ gt_out = None
    /\ naf_x = <<>>
    /\ naf_z = None
    /\ sample = None

CallMultiMillerLoop ==
    /\ out = None
    /\ out' = Some(Outcome("multi_miller_loop", multi_miller_loop_run(terms)))
    /\ UNCHANGED <<q_in, prepared, on_prove, terms, terms_on_prove, f_ml, witness>>
    /\ UNCHANGED gt_naf_vars

CallOnProvePairingPrepare ==
    /\ out = None
    /\ out' = Some(Outcome("multi_miller_loop_on_prove_pairing_prepare",
                           multi_miller_loop_on_prove_pairing_prepare_run(terms_on_prove)))
    /\ UNCHANGED <<q_in, prepared, on_prove, terms, terms_on_prove, f_ml, witness>>
    /\ UNCHANGED gt_naf_vars

CallCWi ==
    /\ out = None
    /\ \E w \in WitnessInputs :
          /\ witness' = Some(w @@ [from |-> "caller"])
          /\ out' = Some(Outcome("multi_miller_loop_c_wi",
                                 multi_miller_loop_c_wi_run(w.c, w.wi, terms)))
    /\ UNCHANGED <<q_in, prepared, on_prove, terms, terms_on_prove, f_ml>>
    /\ UNCHANGED gt_naf_vars

CallOnProvePairing ==
    /\ out = None
    /\ \E w \in WitnessInputs :
          /\ witness' = Some(w @@ [from |-> "caller"])
          /\ out' = Some(Outcome("multi_miller_loop_on_prove_pairing",
                                 multi_miller_loop_on_prove_pairing_run(w.c, w.wi, terms_on_prove)))
    /\ UNCHANGED <<q_in, prepared, on_prove, terms, terms_on_prove, f_ml>>
    /\ UNCHANGED gt_naf_vars

Next ==
    \/ CallMultiMillerLoop
    \/ CallOnProvePairingPrepare
    \/ CallCWi
    \/ CallOnProvePairing

Spec == Init /\ [][Next]_vars

(***************************************************************************)
(* SpecWitness: the flow of test_pairing_with_c_wi and                      *)
(* test_on_prove_paring. A Miller loop value f is computed on the terms, a  *)
(* witness (c, wi) is computed from f (or handed in by the caller), and a   *)
(* verifying loop is called with it. Every record comes from from_affine.   *)
(***************************************************************************)
PointInputs ==
    {[p |-> G1SampleA, q |-> G2SampleA, resize |-> 0],
     [p |-> G1SampleB, q |-> G2SampleB, resize |-> 0],
     [p |-> G1AffineIdentity, q |-> G2SampleA, resize |-> 0],
     [p |-> G1SampleA, q |-> G2AffineIdentity, resize |-> 0]}

\* the z the sampling of compute_c_wi may stop at, among 2..MaxZ
MaxZ == 6
ZInputs == {z \in 2..MaxZ : IsSampled(z)}

InitWitness ==
    /\ q_in = G2AffineIdentity
    /\ prepared = None
    /\ on_prove = None
    /\ \E ins \in SeqsUpTo(PointInputs, MaxTerms) :
          /\ terms = [j \in 1..Len(ins) |-> JacobianTerm(ins[j])]
          /\ terms_on_prove = [j \in 1..Len(ins) |-> OnProveTerm(ins[j])]
    /\ f_ml = None
    /\ witness = None
    /\ out = None
    /\ gt_in = None
    /\ gt_out = None
    /\ naf_x = <<>>
    /\ naf_z = None
    /\ sample = None

\* let f = multi_miller_loop(terms)
ComputeF ==
    /\ f_ml = None /\ witness = None
    /\ f_ml' = Some(Outcome("multi_miller_loop", multi_miller_loop_run(terms)))
    /\ UNCHANGED <<q_in, prepared, on_prove, terms, terms_on_prove, witness, out>>
    /\ UNCHANGED gt_naf_vars

\* let f = multi_miller_loop_on_prove_pairing_prepare(terms_on_prove)
ComputeFOnProve ==
    /\ f_ml = None /\ witness = None
    /\ f_ml' = Some(Outcome("multi_miller_loop_on_prove_pairing_prepare",
                            multi_miller_loop_on_prove_pairing_prepare_run(terms_on_prove)))
    /\ UNCHANGED <<q_in, prepared, on_prove, terms, terms_on_prove, witness, out>>
    /\ UNCHANGED gt_naf_vars

\* let (c, wi) = compute_c_wi(f)
ComputeCWi ==
    /\ f_ml # None /\ f_ml.value.res.ok
    /\ witness = None
    /\ \E z \in ZInputs :
          LET cw == compute_c_wi(f_ml.value.res.value, z)
          IN  /\ cw.ok
              /\ witness' = Some(cw.value @@ [from |-> "compute_c_wi"])
    /\ UNCHANGED <<q_in, prepared, on_prove, terms, terms_on_prove, f_ml, out>>
    /\ UNCHANGED gt_naf_vars

\* a (c, wi) that was not computed from f
HandInWitness ==
    /\ f_ml = None /\ witness = None
    /\ \E w \in WitnessInputs : witness' = Some(w @@ [from |-> "caller"])
    /\ UNCHANGED <<q_in, prepared, on_prove, terms, terms_on_prove, f_ml, out>>
    /\ UNCHANGED gt_naf_vars

\* multi_miller_loop_c_wi(&c, &wi, terms)
VerifyCWi ==
    /\ witness # None /\ out = None
    /\ out' = Some(Outcome("multi_miller_loop_c_wi",
                           multi_miller_loop_c_wi_run(witness.value.c, witness.value.wi, terms)))
    /\ UNCHANGED <<q_in, prepared, on_prove, terms, terms_on_prove, f_ml, witness>>
    /\ UNCHANGED gt_naf_vars

\* multi_miller_loop_on_prove_pairing(&c, &wi, terms_on_prove)
VerifyOnProve ==
    /\ witness # None /\ out = None
    /\ out' = Some(Outcome("multi_miller_loop_on_prove_pairing",
                           multi_miller_loop_on_prove_pairing_run(witness.value.c, witness.value.wi,
                                                                  terms_on_prove)))
    /\ UNCHANGED <<q_in, prepared, on_prove, terms, terms_on_prove, f_ml, witness>>
    /\ UNCHANGED gt_naf_vars

NextWitness ==
    \/ ComputeF
    \/ ComputeFOnProve
    \/ ComputeCWi
    \/ HandInWitness
    \/ VerifyCWi
    \/ VerifyOnProve

SpecWitness == InitWitness /\ [][NextWitness]_vars

(***************************************************************************)
(* SpecTamper: multi_miller_loop_on_prove_pairing called on a slice with a  *)
(* record that differs from from_affine(init_q) in one alpha or one bias,   *)
(* with a witness handed in or computed from the value of the altered lines *)
(***************************************************************************)
\* the length of the coefficient list of a record of from_affine: one
\* doubling per pass, one addition per non-zero digit, two trailing additions
LoopCoefficients ==
    (NafLen - 1) + Cardinality({i \in 1..(NafLen - 1) : NafDigit(i - 1) # 0}) + 2

\* G2OnProvePrepared { coeffs, .. } with the alpha (part 1) or the bias
\* (part 2) of its k-th coefficient set to v; the fields are pub(crate)
Tampered(rec, k, part, v) == [rec EXCEPT !.coeffs[k][part] = v]

\* the coefficients altered: the first MaxTamper and the two trailing ones
MaxTamper == 6
TamperPositions == (1..MaxTamper) \cup {LoopCoefficients - 1, LoopCoefficients}
TamperValues == {Fq2Zero, Fq2One, Fq2Of(0, 1), Fq2Of(3, 7)}
\* what precedes the altered term in the slice
TamperAhead == {"nothing", "zero", "sound"}
TamperInputs == [k : TamperPositions, part : 1..2, v : TamperValues, ahead : TamperAhead]

\* the slice of an input: a term with the altered record of G2SampleA, alone,
\* behind a term with the record of the identity, or behind a sound term
TamperedTerms(in) ==
    Then(G2OnProvePrepared_from_affine(G2SampleA),
         LAMBDA rec :
            LET altered == [p |-> G1SampleA, q |-> Tampered(rec, in.k, in.part, in.v)]
            IN  IF in.ahead = "zero"
                THEN <<[p |-> G1SampleB, q |-> G2OnProvePrepared_from_affine(G2AffineIdentity)],
                       altered>>
                ELSE IF in.ahead = "sound"
                THEN <<[p |-> G1SampleB, q |-> G2OnProvePrepared_from_affine(G2SampleB)],
                       altered>>
                ELSE <<altered>>)

InitTamper ==
    /\ q_in = G2AffineIdentity
    /\ prepared = None
    /\ on_prove = None
    /\ terms = <<>>
    /\ \E in \in TamperInputs : terms_on_prove = TamperedTerms(in)
    /\ f_ml = None
    /\ witness = None
    /\ out = None
    /\ gt_in = None
    /\ gt_out = None
    /\ naf_x = <<>>
    /\ naf_z = None
    /\ sample = None

NextTamper == ComputeFOnProve \/ ComputeCWi \/ HandInWitness \/ VerifyOnProve

SpecTamper == InitTamper /\ [][NextTamper]_vars

(***************************************************************************)
(* SpecGt: the operators of Gt and final_exponentiation applied to a, b, k  *)
(***************************************************************************)
\* a * conj(a) = 1
IsUnitary(a) == Fq12Mul(a, Fq12Conjugate(a)) = Fq12One

\* the wrapped values up to MaxGt and the unitary ones; the scalars up to
\* MaxScalar; the lists of at most MaxSumLen operands
MaxGt == 3
MaxScalar == 5
MaxSumLen == 3
GtInputs == {a \in Fq12 : a <= MaxGt \/ IsUnitary(a)}

PairingIdle ==
    /\ q_in = G2AffineIdentity
    /\ prepared = None
    /\ on_prove = None
    /\ terms = <<>>
    /\ terms_on_prove = <<>>
    /\ f_ml = None
    /\ witness = None
    /\ out = None

InitGt ==
    /\ PairingIdle
    /\ gt_in \in [a : GtInputs, b : GtInputs, k : 0..MaxScalar]
    /\ gt_out = None
    /\ naf_x = <<>>
    /\ naf_z = None
    /\ sample = None

GtApplied(fn, items, res) ==
    /\ gt_out = None
    /\ gt_out' = Some([fn |-> fn, items |-> items, res |-> res])
    /\ UNCHANGED <<gt_in, naf_x, naf_z, sample>>
    /\ UNCHANGED pairing_vars

\* a + b
GtAdd == GtApplied("add", <<gt_in.a, gt_in.b>>, Gt_add(gt_in.a, gt_in.b))

\* a - b
GtSub == GtApplied("sub", <<gt_in.a, gt_in.b>>, Gt_sub(gt_in.a, gt_in.b))

\* a.double()
GtDouble == GtApplied("double", <<gt_in.a>>, Gt_double(gt_in.a))

\* items.iter().sum::<Gt>() for a list made of a and b
GtSum ==
    \E items \in SeqsUpTo({gt_in.a, gt_in.b}, MaxSumLen) :
        GtApplied("sum", items, Gt_sum(items))

\* a * k
GtMulFr == GtApplied("mul_fr", <<gt_in.a>>, Gt_mul_fr(gt_in.a, gt_in.k))

\* a.final_exponentiation()
GtFinalExponentiation ==
    GtApplied("final_exponentiation", <<gt_in.a>>, final_exponentiation(gt_in.a))

NextGt == GtAdd \/ GtSub \/ GtDouble \/ GtSum \/ GtMulFr \/ GtFinalExponentiation

SpecGt == InitGt /\ [][NextGt]_vars

(***************************************************************************)
(* SpecNaf: to_naf applied to a BigUint                                     *)
(***************************************************************************)
\* the numbers up to MaxNafInput, and 6 * BN_X + 2
MaxNafInput == 60
NafInputs == {BitsOfNat(n) : n \in 0..MaxNafInput} \cup {SixUPlus2}

InitNaf ==
    /\ PairingIdle
    /\ gt_in = None
    /\ gt_out = None
    /\ naf_x \in NafInputs
    /\ naf_z = None
    /\ sample = None

\* let z = to_naf(&x)
ToNaf ==
    /\ naf_z = None
    /\ naf_z' = Some(to_naf(naf_x))
    /\ UNCHANGED <<gt_in, gt_out, naf_x, sample>>
    /\ UNCHANGED pairing_vars

NextNaf == ToNaf

SpecNaf == InitNaf /\ [][NextNaf]_vars

(***************************************************************************)
(* SpecSample: compute_c_wi(f) from its entry to the choice of wi, one step *)
(* per loop test, draw and assertion; SpecSampleFair adds that the program  *)
(* keeps running and that the random source keeps yielding every element    *)
(***************************************************************************)
MaxSampleF == 12
MaxSampleZ == 12
MaxBodies == 3
\* f is an r-th residue: assert_eq!(f^h, one) has passed
SampleFInputs == {f \in Fq12 : f <= MaxSampleF /\ PowByExponent(f, H_EXP) = Fq12One}
\* what Fq12::random may return
SampleZInputs == {z \in Fq12 : z <= MaxSampleZ}

InitSample ==
    /\ PairingIdle
    /\ gt_in = None
    /\ gt_out = None
    /\ naf_x = <<>>
    /\ naf_z = None
    /\ \E f \in SampleFInputs : sample = SamplingStart(f)

SampleStep(st) ==
    /\ sample' = st
    /\ UNCHANGED <<gt_in, gt_out, naf_x, naf_z>>
    /\ UNCHANGED pairing_vars

\* the test of `while w == Fq12::one()`
OuterTest ==
    /\ sample.pc = "outer"
    /\ sample.bodies < MaxBodies
    /\ SampleStep(Sample_outer(sample))

\* the test of `while legendre == Fq12::one()` holds: one more draw
Draw(z) ==
    /\ sample.pc = "inner"
    /\ sample.legendre = Fq12One
    /\ SampleStep(Sample_draw(sample, z))

DrawAny == \E z \in SampleZInputs : Draw(z)

\* a draw the inner loop stops at
DrawAccepted ==
    \E z \in SampleZInputs : PowByExponent(z, COFACTOR_CUBIC) # Fq12One /\ Draw(z)

\* the test of the inner loop fails: w = z^t
Raise ==
    /\ sample.pc = "inner"
    /\ sample.legendre # Fq12One
    /\ SampleStep(Sample_raise(sample))

AssertW ==
    /\ sample.pc = "asserts"
    /\ SampleStep(Sample_asserts(sample))

ChooseWiStep ==
    /\ sample.pc = "choose"
    /\ SampleStep(Sample_choose(sample))

NextSample == OuterTest \/ DrawAny \/ Raise \/ AssertW \/ ChooseWiStep

SpecSample == InitSample /\ [][NextSample]_vars

\* the program takes its next step, and a value the source can yield is
\* yielded if it is asked for again and again
SpecSampleFair ==
    /\ SpecSample
    /\ WF_vars(OuterTest) /\ WF_vars(Raise) /\ WF_vars(AssertW) /\ WF_vars(ChooseWiStep)
    /\ SF_vars(DrawAccepted)

(***************************************************************************)
(* SpecCubic: tonelli_shanks_cubic applied to a cubic residue a and a       *)
(* cubic non-residue c, with the s, t and k of compute_c_wi                 *)
(***************************************************************************)
\* x is a cube of the multiplicative group: x^(3^(s-1) * t) = 1
IsCubicResidue(x) == x # Fq12Zero /\ Fq12Pow(x, COFACTOR_CUBIC) = Fq12One
IsCubicNonResidue(x) == x # Fq12Zero /\ Fq12Pow(x, COFACTOR_CUBIC) # Fq12One

MaxCubicA == 120
MaxCubicC == 60
CubicInputsA == {a \in Fq12 : a <= MaxCubicA /\ IsCubicResidue(a)}
CubicInputsC == {c \in Fq12 : c <= MaxCubicC /\ IsCubicNonResidue(c)}

InitCubic ==
    /\ PairingIdle
    /\ gt_in \in [a : CubicInputsA, c : CubicInputsC]
    /\ gt_out = None
    /\ naf_x = <<>>
    /\ naf_z = None
    /\ sample = None

\* tonelli_shanks_cubic(a, c, s, t, k)
TonelliShanksCubic ==
    GtApplied("tonelli_shanks_cubic", <<gt_in.a, gt_in.c>>,
              tonelli_shanks_cubic(gt_in.a, gt_in.c, S_3ADIC))

NextCubic == TonelliShanksCubic

SpecCubic == InitCubic /\ [][NextCubic]_vars

(***************************************************************************)
(* Claims                                                                  *)
(***************************************************************************)
\* the kinds of the steps that pushed the coefficients, in order
Kinds(steps) == [j \in 1..Len(steps) |-> steps[j].kind]
CountKind(kinds, kind) == Cardinality({j \in 1..Len(kinds) : kinds[j] = kind})

\* C1 (as stated): for a non-identity q, G2Prepared::from_affine(q) has
\* infinity = false and exactly 87 triples: 65 doublings, 20 NAF additions
\* and 2 trailing Frobenius additions.
C1_AsStated ==
    (prepared.is_some /\ ~G2AffineIsIdentity(q_in)) =>
        LET kinds == Kinds(G2Prepared_steps(q_in))
        IN  /\ prepared.value.infinity = FALSE
            /\ Len(prepared.value.coeffs) = 87
            /\ CountKind(kinds, "doubling") = 65
            /\ CountKind(kinds, "addition") = 20
            /\ CountKind(kinds, "frobenius") = 2

\* C1 (amended): for a non-identity q, G2Prepared::from_affine(q) has
\* infinity = false and exactly 91 triples: 64 doublings (one per pass
\* i = 64..1), 25 additions (the nonzero digits among SIX_U_PLUS_2_NAF[0..63])
\* and 2 trailing Frobenius additions.
C1_Coeffs91 ==
    (prepared.is_some /\ ~G2AffineIsIdentity(q_in)) =>
        LET kinds == Kinds(G2Prepared_steps(q_in))
        IN  /\ prepared.value.infinity = FALSE
            /\ Len(prepared.value.coeffs) = 91
            /\ Len(kinds) = 91
            /\ CountKind(kinds, "doubling") = 64
            /\ CountKind(kinds, "addition") = 25
            /\ CountKind(kinds, "frobenius") = 2

C1_Witness ==
    /\ prepared.is_some
    /\ ~G2AffineIsIdentity(q_in)
    /\ Len(prepared.value.coeffs) = 91

\* C9: for every q, G2OnProvePrepared::from_affine(q) holds as many
\* coefficients as G2Prepared::from_affine(q), and the coefficient at each
\* position comes from the same kind of step in both.
C9_SameShape ==
    (prepared.is_some /\ on_prove.is_some) =>
        /\ on_prove.value.abort = "none"
        /\ Len(on_prove.value.coeffs) = Len(prepared.value.coeffs)
        /\ ~G2AffineIsIdentity(q_in) =>
              Kinds(OnProve_run(q_in).steps) = Kinds(G2Prepared_steps(q_in))

C9_Witness ==
    /\ prepared.is_some
    /\ on_prove.is_some
    /\ Len(on_prove.value.coeffs) = 91
    /\ Len(prepared.value.coeffs) = 91

\* C10: preparing the identity gives infinity = true and no coefficients in
\* both records; in every record from_affine returns, infinity = true exactly
\* when coeffs is empty; the on-prove record stores init_q = q.
C10_IdentityEmpty ==
    /\ prepared.is_some =>
          /\ prepared.value.infinity <=> (prepared.value.coeffs = <<>>)
          /\ G2AffineIsIdentity(q_in) =>
                (prepared.value.infinity /\ prepared.value.coeffs = <<>>)
    /\ on_prove.is_some =>
          /\ G2AffineIsIdentity(q_in) =>
                /\ on_prove.value.abort = "none"
                /\ on_prove.value.infinity
                /\ on_prove.value.coeffs = <<>>
          /\ on_prove.value.abort = "none" =>
                /\ on_prove.value.infinity <=> (on_prove.value.coeffs = <<>>)
                /\ on_prove.value.init_q = q_in

C10_Witness ==
    /\ G2AffineIsIdentity(q_in)
    /\ prepared.is_some /\ prepared.value.infinity
    /\ on_prove.is_some /\ on_prove.value.infinity

\* T with the identity terms removed: those whose G1 point is the identity
\* or whose prepared G2 record is zero
WithoutIdentityTerms(ts) ==
    SelectSeq(ts, LAMBDA t : ~G1AffineIsIdentity(t.p) /\ ~t.q.infinity)

\* the records G2Prepared::from_affine returns on the sample points
BuiltRecords ==
    {G2Prepared_from_affine(q) : q \in {G2SampleA, G2SampleB, G2AffineIdentity}}
FromAffineBuilt(ts) == \A j \in 1..Len(ts) : ts[j].q \in BuiltRecords

\* C2: on terms whose records were built by G2Prepared::from_affine,
\* multi_miller_loop returns without an unwrap or exhaustion abort, and every
\* surviving pair's iterator has yielded exactly its whole coefficient list.
C2_ExactConsumption ==
    (out.is_some /\ out.value.fn = "multi_miller_loop" /\ FromAffineBuilt(terms)) =>
        LET pairs == WithoutIdentityTerms(terms)
        IN  /\ out.value.res.ok
            /\ Len(out.value.pos) = Len(pairs)
            /\ \A j \in 1..Len(pairs) : out.value.pos[j] = Len(pairs[j].q.coeffs)

C2_Witness ==
    /\ out.is_some
    /\ out.value.fn = "multi_miller_loop"
    /\ FromAffineBuilt(terms)
    /\ Len(out.value.pos) = 2
    /\ out.value.pos[1] = Len(G2Prepared_from_affine(G2SampleA).coeffs)
    /\ out.value.res.ok

\* C4: multi_miller_loop(T) equals multi_miller_loop(T with the identity
\* terms removed), and replacing an identity-G1 term of T by a zero-G2 term
\* gives the same Miller loop result, hence the same final exponentiation.
C4_IdentityTermsIgnored ==
    (out.is_some /\ out.value.fn = "multi_miller_loop") =>
        /\ out.value.res = multi_miller_loop(WithoutIdentityTerms(terms))
        /\ \A j \in 1..Len(terms) :
              G1AffineIsIdentity(terms[j].p) =>
                 LET zero_g2 == [p |-> G1SampleA,
                                 q |-> G2Prepared_from_affine(G2AffineIdentity)]
                     swapped == multi_miller_loop([terms EXCEPT ![j] = zero_g2])
                 IN  /\ swapped = out.value.res
                     /\ swapped.ok =>
                           final_exponentiation(swapped.value)
                              = final_exponentiation(out.value.res.value)

C4_Witness ==
    /\ out.is_some
    /\ out.value.fn = "multi_miller_loop"
    /\ Len(terms) = 2
    /\ G1AffineIsIdentity(terms[1].p)
    /\ Len(out.value.pos) = 1
    /\ out.value.res.ok
    /\ out.value.ells = Len(terms[2].q.coeffs)

\* C5: pairing(P, Q) with P the G1 identity or Q the G2 identity returns
\* Fq12::one: its Miller loop applies no line, consumes no coefficient and
\* leaves f = Fq12::one, which final_exponentiation maps to Fq12::one.
C5_PairingWithIdentity ==
    (/\ out.is_some
     /\ out.value.fn = "pairing"
     /\ (G1AffineIsIdentity(out.value.g1) \/ G2AffineIsIdentity(q_in))) =>
        /\ out.value.res = Ok(Fq12One)
        /\ out.value.ells = 0
        /\ out.value.pos = <<>>
        /\ out.value.f = Fq12One
        /\ final_exponentiation(Fq12One) = Ok(Fq12One)

C5_Witness ==
    /\ out.is_some
    /\ out.value.fn = "pairing"
    /\ G1AffineIsIdentity(out.value.g1)
    /\ ~G2AffineIsIdentity(q_in)
    /\ out.value.res = Ok(Fq12One)

\* the slice a call was made on
TermsOf(fn) ==
    IF fn \in {"multi_miller_loop", "multi_miller_loop_c_wi"} THEN terms ELSE terms_on_prove

\* C3 (as stated): a call of multi_miller_loop_on_prove_pairing on T has the
\* outcome of the call on T with the identity terms removed: the same return
\* value and no extra abort, wherever the identity terms sit in T.
C3_SameOutcomeAsFiltered ==
    (out.is_some /\ out.value.fn = "multi_miller_loop_on_prove_pairing") =>
        LET filtered == multi_miller_loop_on_prove_pairing(
                            witness.value.c, witness.value.wi,
                            WithoutIdentityTerms(terms_on_prove))
        IN  filtered.ok => out.value.res = filtered

\* the verifying loops
VerifyingLoops == {"multi_miller_loop_c_wi", "multi_miller_loop_on_prove_pairing"}

\* every surviving pair's iterator has yielded its whole coefficient list
AllConsumed(o) ==
    LET pairs == WithoutIdentityTerms(TermsOf(o.fn))
    IN  /\ Len(o.pos) = Len(pairs)
        /\ \A j \in 1..Len(pairs) : o.pos[j] = Len(pairs[j].q.coeffs)

\* C6: multi_miller_loop_c_wi and multi_miller_loop_on_prove_pairing return
\* nothing but Fq12::one: a call that has made its trailing additions with
\* f /= Fq12::one aborts on assert_eq!(f, Fq12::one()) instead of returning.
C6_OnlyOneReturned ==
    (out.is_some /\ out.value.fn \in VerifyingLoops) =>
        /\ out.value.res.ok =>
              (out.value.res.value = Fq12One /\ out.value.f = Fq12One)
        /\ (AllConsumed(out.value) /\ out.value.f # Fq12One) =>
              out.value.res = Panic("assert_one")

C6_Witness ==
    /\ out.is_some
    /\ out.value.fn \in VerifyingLoops
    /\ AllConsumed(out.value)
    /\ Len(out.value.pos) > 0
    /\ out.value.f # Fq12One
    /\ out.value.res = Panic("assert_one")

\* C7: when f = multi_miller_loop(terms) has final exponentiation one, every
\* (c, wi) compute_c_wi(f) returns satisfies c^lambda = f * wi, and
\* multi_miller_loop_c_wi(c, wi, terms) returns Fq12::one without aborting,
\* whichever z the sampling stopped at.
C7_RoundTrip ==
    (/\ witness.is_some
     /\ witness.value.from = "compute_c_wi"
     /\ f_ml.value.fn = "multi_miller_loop"
     /\ final_exponentiation(f_ml.value.res.value) = Ok(Fq12One)) =>
        /\ Fq12Pow(witness.value.c, LAMBDA_EXP)
              = Fq12Mul(f_ml.value.res.value, witness.value.wi)
        /\ (out.is_some /\ out.value.fn = "multi_miller_loop_c_wi") =>
              out.value.res = Ok(Fq12One)

C7_Witness ==
    /\ witness.is_some
    /\ witness.value.from = "compute_c_wi"
    /\ witness.value.wi # Fq12One
    /\ f_ml.value.fn = "multi_miller_loop"
    /\ out.is_some
    /\ out.value.fn = "multi_miller_loop_c_wi"
    /\ Len(out.value.pos) = 2
    /\ out.value.res = Ok(Fq12One)

\* the number of coefficients a loop takes from each surviving pair
LoopConsumption == Len(G2Prepared_from_affine(G2SampleA).coeffs)

\* C8 (as stated): every Miller loop variant validates the length of each
\* surviving pair's coefficient list on entry: a call on a list of the wrong
\* length aborts before any squaring or line evaluation is applied to f.
C8_ValidatedOnEntry ==
    (out.is_some /\ out.value.fn # "pairing") =>
        LET pairs == WithoutIdentityTerms(TermsOf(out.value.fn))
        IN  (\E j \in 1..Len(pairs) : Len(pairs[j].q.coeffs) # LoopConsumption) =>
               /\ ~out.value.res.ok
               /\ out.value.squarings = 0
               /\ out.value.ells = 0

\* the Fq12 product of the values of a list
RECURSIVE ProductOf(_)
ProductOf(items) ==
    IF items = <<>> THEN Fq12One ELSE Fq12Mul(Head(items), ProductOf(Tail(items)))

\* the operator applied, its operands and its result
GtCall(fn) == gt_out.is_some /\ gt_out.value.fn = fn

\* C11 (as stated): Gt is a multiplicative group under its operators: a + b is
\* the Fq12 product of the wrapped values, a + identity = a, a - a = identity
\* for unitary a, a.double() = a + a, and the Sum of a list is the product of
\* its values.
C11_GtIsMultiplicative ==
    /\ GtCall("add") =>
          /\ gt_out.value.res = Fq12Mul(gt_in.a, gt_in.b)
          /\ (gt_in.b = Gt_identity => gt_out.value.res = gt_in.a)
    /\ (GtCall("sub") /\ gt_in.a = gt_in.b /\ IsUnitary(gt_in.a)) =>
          gt_out.value.res = Gt_identity
    /\ GtCall("double") => gt_out.value.res = Gt_add(gt_in.a, gt_in.a)
    /\ GtCall("sum") => gt_out.value.res = ProductOf(gt_out.value.items)

\* C12 (as stated): a * k is a raised to the power k in the multiplicative
\* group, for every scalar k: a * 0 is the identity and a * 1 is a.
C12_ScalarMulIsPower ==
    GtCall("mul_fr") =>
        /\ gt_out.value.res = Fq12Pow(gt_in.a, gt_in.k)
        /\ (gt_in.k = 0 => gt_out.value.res = Gt_identity)
        /\ (gt_in.k = 1 => gt_out.value.res = gt_in.a)

\* C19: final_exponentiation aborts on the unwrap of invert, returning no Gt,
\* exactly when the wrapped value is zero; for every nonzero value it returns
\* a Gt.
C19_FailsExactlyOnZero ==
    GtCall("final_exponentiation") =>
        /\ gt_out.value.res.ok <=> gt_in.a # Fq12Zero
        /\ gt_in.a = Fq12Zero =>
              /\ Fq12Invert(gt_in.a) = None
              /\ gt_out.value.res = Panic("unwrap")
        /\ gt_in.a # Fq12Zero => gt_out.value.res.value \in Fq12

C19_Witness ==
    /\ GtCall("final_exponentiation")
    /\ gt_in.a = Fq12Zero
    /\ ~gt_out.value.res.ok

\* a digit list z has the signed-binary value x: with P the number of its
\* digits +1 and N that of its digits -1, N + x = P
DigitBits(z, d) == Normalized([j \in 1..Len(z) |-> IF z[j] = d THEN 1 ELSE 0])
SignedValueIs(z, x) == BigAdd(DigitBits(z, -1), x) = DigitBits(z, 1)

\* the zero-based indices i at which z[i] and z[i+1] are both nonzero
AdjacentNonzero(z) == {j - 1 : j \in {i \in 1..(Len(z) - 1) : z[i] # 0 /\ z[i + 1] # 0}}
IsSignedDigits(z) == \A j \in 1..Len(z) : z[j] \in {-1, 0, 1}

\* C13: SIX_U_PLUS_2_NAF has 65 digits in {-1, 0, +1}, its digit of index 64
\* is +1, its little-endian signed-binary value is 6 * BN_X + 2 =
\* 29793968203157093288, and SIX_U_PLUS_2_NAF_V is the same list.
C13_ValueOfNaf ==
    /\ Len(SIX_U_PLUS_2_NAF) = 65
    /\ IsSignedDigits(SIX_U_PLUS_2_NAF)
    /\ NafDigit(64) = 1
    /\ SIX_U_PLUS_2_NAF_V = SIX_U_PLUS_2_NAF
    /\ SixUPlus2 = BigFromDecimal(SIX_U_PLUS_2_DECIMAL)
    /\ naf_x = SixUPlus2 => SignedValueIs(SIX_U_PLUS_2_NAF, naf_x)

C13_Witness ==
    /\ naf_x = BigFromDecimal(SIX_U_PLUS_2_DECIMAL)
    /\ naf_z.is_some
    /\ SignedValueIs(SIX_U_PLUS_2_NAF, naf_x)

C18_SwapSymmetry ==
    /\ (out.is_some /\ out.value.fn = "G1Affine::pairing_with") =>
          /\ out.value.res = pairing(out.value.g1, q_in)
          /\ out.value.res = G2Affine_pairing_with(q_in, out.value.g1)
    /\ (out.is_some /\ out.value.fn = "G2Affine::pairing_with") =>
          /\ out.value.res = pairing(out.value.g1, q_in)
          /\ out.value.res = G1Affine_pairing_with(out.value.g1, q_in)

C18_Witness ==
    /\ out.is_some
    /\ out.value.fn = "G2Affine::pairing_with"
    /\ ~G1AffineIsIdentity(out.value.g1)
    /\ ~G2AffineIsIdentity(q_in)
    /\ out.value.res = G1Affine_pairing_with(out.value.g1, q_in)
    /\ out.value.res.ok

\* the identities of (alpha, beta) = step.coeff on the points of the step
OnLine(coeff, t) == Fq2Sub(Fq2Sub(t.y, Fq2Mul(coeff[1], t.x)), coeff[2]) = Fq2Zero
IsTangent(coeff, t) ==
    Fq2Sub(Fq2Mul(Fq2Mul(Fq2Two, t.y), coeff[1]), Fq2Mul(Fq2Three, Fq2Square(t.x))) = Fq2Zero
ThirdPoint(coeff, t, p) ==
    LET x3 == Fq2Sub(Fq2Sub(Fq2Square(coeff[1]), t.x), p.x)
    IN  G2Affine(x3, Fq2Sub(Fq2Neg(Fq2Mul(coeff[1], x3)), coeff[2]))

\* C20: in G2OnProvePrepared::from_affine every emitted (alpha, beta) is
\* checked before construction goes on: R is on the line, for an addition the
\* second operand is on it too, for a doubling 2*R.y*alpha = 3*R.x^2, and the
\* affine next point is the Jacobian double or sum. For every non-identity q
\* all checks pass, and a record is returned only if they all passed.
C20_EveryCoefficientVerified ==
    (on_prove.is_some /\ ~G2AffineIsIdentity(q_in)) =>
        LET run == OnProve_run(q_in)
        IN  /\ run.abort = "none"
            /\ on_prove.value.abort = "none"
            /\ on_prove.value.coeffs = [j \in 1..Len(run.steps) |-> run.steps[j].coeff]
            /\ \A j \in 1..Len(run.steps) :
                  LET s == run.steps[j]
                  IN  /\ OnLine(s.coeff, s.at)
                      /\ s.kind # "doubling" => OnLine(s.coeff, s.with)
                      /\ s.kind = "doubling" => IsTangent(s.coeff, s.at) /\ s.with = s.at
                      /\ s.next = ThirdPoint(s.coeff, s.at, s.with)
                      /\ s.next = G2ToAffine(IF s.kind = "doubling"
                                             THEN G2Double(G2FromAffine(s.at))
                                             ELSE G2AddAffine(G2FromAffine(s.at), s.with))
                      /\ s.at = (IF j = 1 THEN q_in ELSE run.steps[j - 1].next)

C20_Witness ==
    /\ on_prove.is_some
    /\ ~G2AffineIsIdentity(q_in)
    /\ on_prove.value.abort = "none"
    /\ Len(on_prove.value.coeffs) > 0
    /\ \E j \in 1..Len(OnProve_run(q_in).steps) :
          /\ OnProve_run(q_in).steps[j].kind = "addition"
          /\ OnLine(OnProve_run(q_in).steps[j].coeff, OnProve_run(q_in).steps[j].with)

\* the G2Affine point the G2 record of term j was prepared from
AffineOf(j) == terms_on_prove[j].q.init_q

\* C15: for two pairs (A, B) and (C, D), with records prepared by from_affine,
\* multi_miller_loop([(A, Prep(B)), (C, Prep(D))]).final_exponentiation() is
\* the Fq12 product pairing(A, B) * pairing(C, D): the loop shares its
\* squarings between the pairs, makes the line evaluations of both, and its
\* value is the product of the values of the two single-pair loops.
C15_DoubleLoopIsProduct ==
    (/\ out.is_some
     /\ out.value.fn = "multi_miller_loop"
     /\ Len(terms) = 2
     /\ FromAffineBuilt(terms)) =>
        LET ab == pairing(terms[1].p, AffineOf(1))
            cd == pairing(terms[2].p, AffineOf(2))
            ab_run == pairing_run(terms[1].p, AffineOf(1))
            cd_run == pairing_run(terms[2].p, AffineOf(2))
        IN  /\ out.value.res.ok /\ ab.ok /\ cd.ok
            /\ final_exponentiation(out.value.f) = Ok(Gt_mul(ab.value, cd.value))
            /\ out.value.f = Fq12Mul(ab_run.f, cd_run.f)
            /\ out.value.squarings = ab_run.squarings
            /\ out.value.squarings = cd_run.squarings
            /\ out.value.ells = ab_run.ells + cd_run.ells

C15_Witness ==
    /\ out.is_some
    /\ out.value.fn = "multi_miller_loop"
    /\ Len(terms) = 2
    /\ FromAffineBuilt(terms)
    /\ terms[1] # terms[2]
    /\ Len(WithoutIdentityTerms(terms)) = 2
    /\ out.value.res.ok
    /\ out.value.f # Fq12One
    /\ out.value.f = Fq12Mul(pairing_run(terms[1].p, AffineOf(1)).f,
                             pairing_run(terms[2].p, AffineOf(2)).f)

\* the calls of the four Miller loops
LoopCall == out.is_some /\ out.value.fn # "pairing"

\* the terms of a slice whose record is not zero and has a coefficient list
\* of the wrong length: too short (d = -1) or too long (d = 1)
WrongLength(ts, d) ==
    {j \in 1..Len(ts) :
        /\ ~ts[j].q.infinity
        /\ IF d < 0 THEN Len(ts[j].q.coeffs) < LoopConsumption
           ELSE Len(ts[j].q.coeffs) > LoopConsumption}

SurvivingWrongLength(ts, d) == {j \in WrongLength(ts, d) : ~G1AffineIsIdentity(ts[j].p)}
NoIdentityTerm(ts) ==
    \A j \in 1..Len(ts) : ~G1AffineIsIdentity(ts[j].p) /\ ~ts[j].q.infinity

Ops(trace) == [k \in 1..Len(trace) |-> trace[k].op]
Copies(n, op) == [k \in 1..n |-> op]

\* a call that went through its whole loop and its trailing additions
Completed(o) == o.res.ok \/ o.res = Panic("assert_one")
SkipsFirstSquare == {"multi_miller_loop", "multi_miller_loop_on_prove_pairing_prepare"}

\* what iteration i does in a loop over n pairs, as the claims state it:
\* square (unless it is the first iteration of a loop that skips it), the
\* multiplication by c or c_inv of a loop with a witness, the doubling
\* coefficient of every pair, the addition coefficient of every pair
IterationOps(fn, n, i) ==
    (IF fn \in SkipsFirstSquare /\ i = Len(SIX_U_PLUS_2_NAF) - 1 THEN <<>> ELSE <<"square">>)
    \o (IF fn \in VerifyingLoops /\ SIX_U_PLUS_2_NAF[i] # 0 THEN <<"mul">> ELSE <<>>)
    \o Copies(n, "ell")
    \o (IF SIX_U_PLUS_2_NAF[i] # 0 THEN Copies(n, "ell") ELSE <<>>)
LoopOps(fn, n) == ForRev64(<<>>, 64, LAMBDA acc, i : acc \o IterationOps(fn, n, i))

\* C22: multi_miller_loop and multi_miller_loop_on_prove_pairing_prepare
\* square f in every iteration but the first (63 squarings in 64 iterations),
\* each squaring before the line evaluations of its iteration;
\* multi_miller_loop_c_wi and multi_miller_loop_on_prove_pairing square f in
\* every iteration (64 squarings).
C22_Squarings ==
    (LoopCall /\ Completed(out.value)) =>
        LET n == Len(out.value.pos)
            ops == Ops(out.value.trace)
            looped == LoopOps(out.value.fn, n)
        IN  /\ Len(SIX_U_PLUS_2_NAF) - 1 = 64
            /\ out.value.fn \in SkipsFirstSquare =>
                  /\ out.value.squarings = 63
                  /\ Cardinality({k \in 1..Len(ops) : ops[k] = "square"}) = 63
                  /\ n > 0 => ops[1] = "ell"
            /\ out.value.fn \in VerifyingLoops =>
                  /\ out.value.squarings = 64
                  /\ Cardinality({k \in 1..Len(ops) : ops[k] = "square"}) = 64
                  /\ ops[1] = "square"
            /\ SubSeq(ops, 1, Len(looped)) = looped

C22_Witness ==
    /\ LoopCall
    /\ out.value.fn = "multi_miller_loop"
    /\ out.value.res.ok
    /\ Len(out.value.pos) = 2
    /\ out.value.squarings = 63
    /\ out.value.trace[1].op = "ell"
    /\ \E k \in 2..Len(out.value.trace) :
          /\ out.value.trace[k].op = "square"
          /\ out.value.trace[k + 1].op = "ell"

\* a trace without the pair and coefficient of its line evaluations
Steps(trace) ==
    [k \in 1..Len(trace) |->
        IF trace[k].op = "mul" THEN <<"mul", trace[k].a>> ELSE <<trace[k].op>>]

\* iteration i of a loop with a witness over n pairs, as C23 states it
WitnessIterationSteps(n, c, c_inv, i) ==
    <<(<<"square">>)>>
    \o (IF SIX_U_PLUS_2_NAF[i] = 1 THEN <<(<<"mul", c_inv>>)>>
        ELSE IF SIX_U_PLUS_2_NAF[i] = -1 THEN <<(<<"mul", c>>)>>
        ELSE <<>>)
    \o Copies(n, <<"ell">>)
    \o (IF SIX_U_PLUS_2_NAF[i] # 0 THEN Copies(n, <<"ell">>) ELSE <<>>)

\* and what follows the loop
WitnessClosingSteps(n, c, c_inv, wi) ==
    << <<"mul", Fq12Frobenius(c_inv, 1)>>, <<"mul", Fq12Frobenius(c, 2)>>,
       <<"mul", Fq12Frobenius(c_inv, 3)>>, <<"mul", wi>> >>
    \o Copies(n, <<"ell">>) \o Copies(n, <<"ell">>)

WitnessSteps(n, c, c_inv, wi) ==
    ForRev64(<<>>, 64, LAMBDA acc, i : acc \o WitnessIterationSteps(n, c, c_inv, i))
    \o WitnessClosingSteps(n, c, c_inv, wi)

\* C23: in multi_miller_loop_c_wi and multi_miller_loop_on_prove_pairing each
\* iteration squares f, multiplies it by c_inv (digit +1) or c (digit -1),
\* applies the doubling coefficient of every pair and, for a nonzero digit,
\* the addition coefficient of every pair; after the loop f is multiplied by
\* frobenius1(c_inv), frobenius2(c), frobenius3(c_inv) and wi, then come the
\* two trailing additions, the exhaustion assertion and the assertion f = 1.
C23_OrderOfSteps ==
    (LoopCall /\ out.value.fn \in VerifyingLoops /\ Completed(out.value)) =>
        LET c == witness.value.c
            c_inv == Fq12Invert(c).value
        IN  /\ Steps(out.value.trace) =
                  WitnessSteps(Len(out.value.pos), c, c_inv, witness.value.wi)
            /\ AllConsumed(out.value)
            /\ out.value.res.ok <=> out.value.f = Fq12One

C23_Witness ==
    /\ LoopCall
    /\ out.value.fn = "multi_miller_loop_on_prove_pairing"
    /\ Completed(out.value)
    /\ Len(out.value.pos) = 2
    /\ witness.value.c # Fq12Invert(witness.value.c).value
    /\ Steps(out.value.trace)[2] = <<"mul", Fq12Invert(witness.value.c).value>>

\* 6 * BN_X + 2 and p as exponents on Fq12
SIX_U_PLUS_2_EXP == DecimalMod(SIX_U_PLUS_2_DECIMAL, Fq12Order)
P_EXP == PMod(Fq12Order)

\* f after the NAF loop of multi_miller_loop_c_wi on no pairs
CWiLooped(c) ==
    ForRev64(LoopInit(Fq12Invert(c).value, <<>>, <<>>), NafLen - 1,
             LAMBDA st, i : CWi_pass(st, <<>>, c, Fq12Invert(c).value, i)).f

\* C24: on no surviving pairs multi_miller_loop_c_wi holds c^-(6x+2) in f
\* after the NAF loop and c^-(6x+2 + p - p^2 + p^3) = c^-lambda after the
\* three Frobenius updates; with pairs, the value it tests against 1 is the
\* Miller product of the pairs times c^-lambda times wi.
C24_PowerOfC ==
    (LoopCall /\ out.value.fn = "multi_miller_loop_c_wi" /\ Completed(out.value)) =>
        LET c == witness.value.c
            wi == witness.value.wi
            c_inv == Fq12Invert(c).value
        IN  /\ LAMBDA_EXP = (SIX_U_PLUS_2_EXP + P_EXP + (Fq12Order - 1) * P_EXP * P_EXP
                             + P_EXP * P_EXP * P_EXP) % Fq12Order
            /\ \A a \in GtInputs \ {Fq12Zero} :
                  /\ CWiLooped(a) = Fq12Pow(Fq12Invert(a).value, SIX_U_PLUS_2_EXP)
                  /\ multi_miller_loop_c_wi_run(a, wi, <<>>).f =
                        Fq12Mul(Fq12Pow(Fq12Invert(a).value, LAMBDA_EXP), wi)
            /\ FromAffineBuilt(terms) =>
                  out.value.f = Fq12Mul(Fq12Mul(multi_miller_loop_run(terms).f,
                                                Fq12Pow(c_inv, LAMBDA_EXP)), wi)

C24_Witness ==
    /\ LoopCall
    /\ out.value.fn = "multi_miller_loop_c_wi"
    /\ Completed(out.value)
    /\ witness.value.c # Fq12One
    /\ Len(out.value.pos) > 0
    /\ FromAffineBuilt(terms)
    /\ out.value.f = Fq12Mul(Fq12Mul(multi_miller_loop_run(terms).f,
                                     Fq12Pow(Fq12Invert(witness.value.c).value, LAMBDA_EXP)),
                             witness.value.wi)

\* the line evaluations of a trace, in order
EllEvents(trace) == SelectSeq(trace, LAMBDA e : e.op = "ell")

\* C25: in every Miller loop variant the iterators of the surviving pairs
\* advance in lock-step: the coefficients of a pair are consumed in list
\* order, each phase consumes one coefficient of every surviving pair before
\* the next phase starts, and at the end of every phase all surviving pairs
\* have consumed the same number of coefficients.
C25_LockStep ==
    LoopCall =>
        LET n == Len(out.value.pos)
            trace == out.value.trace
            ells == EllEvents(trace)
        IN  /\ n = Len(WithoutIdentityTerms(TermsOf(out.value.fn)))
            /\ \A m \in 1..Len(ells) :
                  /\ ells[m].a = ((m - 1) % n) + 1
                  /\ ells[m].b = ((m - 1) \div n) + 1
            /\ \A j \in 1..n :
                  out.value.pos[j] = Cardinality({m \in 1..Len(ells) : ells[m].a = j})
            /\ \A k \in 1..Len(trace) :
                  (/\ trace[k].op = "ell"
                   /\ k < Len(trace)
                   /\ trace[k + 1].op # "ell") => trace[k].a = n
            /\ Completed(out.value) =>
                  \A i, j \in 1..n : out.value.pos[i] = out.value.pos[j]

C25_Witness ==
    /\ LoopCall
    /\ out.value.fn = "multi_miller_loop_on_prove_pairing"
    /\ Completed(out.value)
    /\ Len(out.value.pos) = 2
    /\ out.value.pos[1] = LoopConsumption
    /\ out.value.pos[2] = LoopConsumption
    /\ EllEvents(out.value.trace)[4] = Event("ell", 2, 2)

\* the index of the one coefficient in which rec differs from
\* from_affine(rec.init_q), in its alpha or in its bias; 0 when there is no
\* such index
AlteredAt(rec) ==
    LET built == G2OnProvePrepared_from_affine(rec.init_q).coeffs
        off == {k \in 1..Len(built) : k <= Len(rec.coeffs) /\ rec.coeffs[k] # built[k]}
    IN  IF Len(rec.coeffs) = Len(built) /\ Cardinality(off) = 1
        THEN CHOOSE k \in off : TRUE
        ELSE 0

Checks == {"double_verify", "addition_verify", "unwrap", "assert_exhausted", "assert_one"}

\* C26: multi_miller_loop_on_prove_pairing validates every coefficient before
\* it uses it in ell: on a surviving pair whose record differs from
\* from_affine(init_q) in the alpha or the bias of one coefficient the call
\* aborts in double_verify or addition_verify (or at a later check) and
\* returns nothing, whatever c and wi are. On a slice without identity terms
\* it aborts in double_verify or addition_verify on the altered coefficient,
\* which never reaches ell.
C26_AlteredCoefficientAborts ==
    (out.is_some /\ out.value.fn = "multi_miller_loop_on_prove_pairing") =>
        LET pairs == WithoutIdentityTerms(terms_on_prove)
        IN  \A j \in 1..Len(pairs) :
               LET k == AlteredAt(pairs[j].q)
               IN  k > 0 =>
                      /\ ~out.value.res.ok
                      /\ out.value.res.panic \in Checks
                      /\ NoIdentityTerm(terms_on_prove) =>
                            /\ out.value.res.panic \in {"double_verify", "addition_verify"}
                            /\ out.value.pos[j] = k - 1
                            /\ \A e \in 1..Len(out.value.trace) :
                                  out.value.trace[e] # Event("ell", j, k)

C26_Witness ==
    /\ out.is_some
    /\ out.value.fn = "multi_miller_loop_on_prove_pairing"
    /\ witness.value.from = "compute_c_wi"
    /\ Len(terms_on_prove) = 2
    /\ NoIdentityTerm(terms_on_prove)
    /\ AlteredAt(terms_on_prove[2].q) = 2
    /\ out.value.res = Panic("addition_verify")
    /\ out.value.ells > 0

\* rec is what from_affine returns for its init_q
BuiltByFromAffine(rec) == rec = G2OnProvePrepared_from_affine(rec.init_q)

\* every coefficient of pair j the verifier has validated was validated at
\* the construction's point, against the construction's second operand, and
\* left the verifier at the construction's next point
VerifierFollows(o, j, q) ==
    LET steps == OnProve_run(q).steps
    IN  \A e \in 1..Len(o.verified) :
           o.verified[e].pair = j =>
              /\ o.verified[e].k <= Len(steps)
              /\ o.verified[e].at = steps[o.verified[e].k].at
              /\ o.verified[e].with = steps[o.verified[e].k].with
              /\ o.verified[e].next = steps[o.verified[e].k].next

\* C27: for records built by from_affine the verifier of
\* multi_miller_loop_on_prove_pairing uses at every step the second operand
\* of the construction (init_q, -init_q, q1 and q2), its current q after each
\* coefficient is the construction's running point R after the same step, and
\* none of its validation assertions fails.
C27_VerifierFollowsConstruction ==
    (out.is_some /\ out.value.fn = "multi_miller_loop_on_prove_pairing") =>
        LET pairs == WithoutIdentityTerms(terms_on_prove)
        IN  (\A j \in 1..Len(pairs) : BuiltByFromAffine(pairs[j].q)) =>
               /\ out.value.res \notin {Panic("double_verify"), Panic("addition_verify")}
               /\ \A j \in 1..Len(pairs) :
                     /\ VerifierFollows(out.value, j, pairs[j].q.init_q)
                     /\ out.value.pos[j] = Len(pairs[j].q.coeffs)

\* the values delta = s - i - 1 takes in `for i in 1..(s as i32)`
Deltas(s) == {s - i - 1 : i \in 1..(s - 1)}

\* C28: for every cubic residue a and every cubic non-residue c
\* tonelli_shanks_cubic(a, c, s, t, k) returns r with r^3 = a (its closing
\* assertion does not fail), and delta is non-negative on each of its s - 1
\* rounds.
C28_CubeRootOfEveryResidue ==
    (gt_out.is_some /\ gt_out.value.fn = "tonelli_shanks_cubic") =>
        /\ IsCubicResidue(gt_in.a) /\ IsCubicNonResidue(gt_in.c)
        /\ gt_out.value.res.ok
        /\ Fq12Pow(gt_out.value.res.value, 3) = gt_in.a
        /\ \A delta \in Deltas(S_3ADIC) : delta >= 0

\* compute_c_wi has chosen wi
Chosen == sample # None /\ sample.pc = "chosen"

\* C29: the wi compute_c_wi chooses is 1 when f^cofactor_cubic = 1, else w
\* when f * w is a cubic residue, else w^2; (f * wi)^cofactor_cubic = 1 and
\* wi^h = 1 in every case, and the assertion of the w^2 branch does not fail
\* for an r-th residue f and the sampled w.
C29_WiChoice ==
    sample # None =>
        /\ sample.panic # "assert_fww"
        /\ sample.panic # "assert_wi_h"
        /\ sample.pc = "chosen" =>
              LET f == sample.f
                  w == sample.w
                  wi == sample.wi
              IN  /\ wi \in {Fq12One, w, Fq12Mul(w, w)}
                  /\ wi = IF IsCubicResidue(f) THEN Fq12One
                          ELSE IF IsCubicResidue(Fq12Mul(f, w)) THEN w
                          ELSE Fq12Mul(w, w)
                  /\ PowByExponent(Fq12Mul(f, wi), COFACTOR_CUBIC) = Fq12One
                  /\ PowByExponent(wi, H_EXP) = Fq12One

C29_Witness ==
    /\ Chosen
    /\ ~IsCubicResidue(sample.f)
    /\ ~IsCubicResidue(Fq12Mul(sample.f, sample.w))
    /\ sample.wi = Fq12Mul(sample.w, sample.w)
    /\ sample.wi # sample.w

\* the block that samples w has been left
Sampled == sample # None /\ sample.pc \in {"asserts", "choose", "chosen", "panic"}

\* C30: under fair sampling the loops that sample w terminate; they are left
\* with w = z^t for a z with z^cofactor_cubic /= 1, w is not 1, the body of
\* `while w == 1` has run exactly once, and both assertions on w hold:
\* w^cofactor_cubic /= 1 and w^h = 1.
C30_SamplingTerminates ==
    /\ <>Sampled
    /\ [](Sampled =>
            /\ sample.w = PowByExponent(sample.z, T_EXP)
            /\ PowByExponent(sample.z, COFACTOR_CUBIC) # Fq12One
            /\ sample.w # Fq12One
            /\ sample.bodies = 1
            /\ PowByExponent(sample.w, COFACTOR_CUBIC) # Fq12One
            /\ PowByExponent(sample.w, H_EXP) = Fq12One
            /\ sample.panic \notin {"assert_w_cubic", "assert_w_h"})

====
